---- MODULE Spec2Model ----
(***************************************************************************)
(* Model of the 01.xyz market-maker bot: the live quoting engine           *)
(* (MarketMakerLive), its decision modules (RiskManager, SpreadCalculator, *)
(* SizingCalculator, InventoryManager, HedgingEngine, PriceOracle) and the *)
(* cluster supervisor (ProcessManager).                                    *)
(*                                                                         *)
(* Numbers of the program are IEEE doubles; the model computes with exact  *)
(* rationals [n, d] in lowest terms (d > 0).                               *)
(***************************************************************************)
EXTENDS Integers, Sequences, FiniteSets, TLC

VARIABLES
  cfg,              \* the switchable options of CONFIG
  now,              \* Date.now(), in ms
  activeMarkets,    \* MarketMakerLive.activeMarkets (set of market ids)
  handlerCount,     \* callbacks registered with nord.onOrderbookUpdate
  subscribed,       \* markets with a venue orderbook subscription
  isRunning,        \* MarketMakerLive.isRunning
  requoteTimers,    \* markets with a live setInterval safety tick
  lastQuotePrices,  \* MarketMakerLive.lastQuotePrices
  currentQuotes,    \* MarketMakerLive.currentQuotes
  user,             \* NordUser: cached balances, positions, orders
  venueOrders,      \* orders resting at the venue
  handlers,         \* in-flight invocations of handleOrderbookUpdate
  events,           \* orderbook events delivered so far
  failures,         \* venue / source failures injected so far
  stopPc,           \* position of MarketMakerLive.stop()
  stopLog,          \* what stop() has done
  oracle,           \* PriceOracle: cache, updateInterval timers, refresher
  tick,             \* the periodic safety tick callback: position, runs
  cluster,          \* ProcessManager state
  venueAccount,     \* the account as the venue holds it, and its changes
  call,             \* the last direct call of a decision function: its
                    \* name, arguments and result
  boot,             \* the process entry point (cli live or cluster worker):
                    \* its configuration, position and exit code
  backtest          \* BacktestEngine: orders, position, balance, result

\* ------------------------------------------------------------------------
\* Exact rational arithmetic
\* ------------------------------------------------------------------------
RECURSIVE GCD(_, _)
GCD(a, b) ==
  IF b = 0 THEN a ELSE GCD(b, a % b)

IAbs(x) ==
  IF x < 0 THEN -x ELSE x

\* n / d in lowest terms, d # 0
Rat(n, d) ==
  IF d < 0
  THEN [n |-> (-n) \div GCD(IAbs(n), IAbs(d)), d |-> (-d) \div GCD(IAbs(n), IAbs(d))]
  ELSE [n |-> n \div GCD(IAbs(n), IAbs(d)), d |-> d \div GCD(IAbs(n), IAbs(d))]

RInt(k) ==
  [n |-> k, d |-> 1]

\* cross-cancelling product of two fractions in lowest terms
RMul(a, b) ==
  IF a.n = 0 \/ b.n = 0 THEN RInt(0)
  ELSE [n |-> (a.n \div GCD(IAbs(a.n), b.d)) * (b.n \div GCD(IAbs(b.n), a.d)),
        d |-> (a.d \div GCD(IAbs(b.n), a.d)) * (b.d \div GCD(IAbs(a.n), b.d))]

RAdd(a, b) ==
  Rat(a.n * (b.d \div GCD(a.d, b.d)) + b.n * (a.d \div GCD(a.d, b.d)),
      (a.d \div GCD(a.d, b.d)) * b.d)

RNeg(a) ==
  [n |-> -a.n, d |-> a.d]

RSub(a, b) ==
  RAdd(a, RNeg(b))

\* a / b for b # 0
RDiv(a, b) ==
  RMul(a, Rat(b.d, b.n))

RAbs(a) ==
  [n |-> IAbs(a.n), d |-> a.d]

RECURSIVE FracLt(_, _, _, _)
\* a/b < c/d for a, c >= 0 and b, d > 0, by continued fractions (no products)
FracLt(a, b, c, d) ==
  IF a \div b # c \div d THEN a \div b < c \div d
  ELSE IF c % d = 0 THEN FALSE
  ELSE IF a % b = 0 THEN TRUE
  ELSE FracLt(d, c % d, b, a % b)

RLt(a, b) ==
  IF a.n < 0
    THEN IF b.n < 0 THEN FracLt(-b.n, b.d, -a.n, a.d) ELSE TRUE
    ELSE IF b.n < 0 THEN FALSE ELSE FracLt(a.n, a.d, b.n, b.d)

RLe(a, b) ==
  ~RLt(b, a)

RGt(a, b) ==
  RLt(b, a)

RIsZero(a) ==
  a.n = 0

RSign(a) ==
  IF a.n > 0 THEN 1 ELSE IF a.n < 0 THEN -1 ELSE 0

RMax(a, b) ==
  IF RLt(a, b) THEN b ELSE a

RMin(a, b) ==
  IF RLt(b, a) THEN b ELSE a

\* ------------------------------------------------------------------------
\* Configuration (config.ts).  Numeric parameters are the shipped CONFIG;
\* the options a deployment switches are chosen at Init in the variable cfg.
\* ------------------------------------------------------------------------
\* CONFIG.maxLevels: an option validateConfig admits in [1, 10]
MaxLevels == 1

CONFIG ==
  [ fixedSize           |-> Rat(1, 10),
    percentPerLevel     |-> Rat(1, 100),
    tieredMultipliers   |-> << Rat(5, 10), Rat(3, 10), Rat(2, 10) >>,
    spread              |-> [ min |-> Rat(15, 10000), max |-> Rat(125, 10000),
                              depthLevels |-> 5 ],
    risk                |-> [ minMarginFraction    |-> Rat(18, 100),
                              maxExposurePerSide   |-> Rat(25, 100),
                              maxExposurePerMarket |-> Rat(30, 100),
                              maxTotalExposure     |-> Rat(60, 100),
                              minFreeCollateral    |-> RInt(100) ],
    maxLevels           |-> MaxLevels,
    autoHedge           |-> [ imbalanceThreshold |-> Rat(35, 100) ],
    requoteIntervalMs   |-> 5000,
    inventorySkewEnabled |-> TRUE,
    inventorySkewFactor |-> Rat(2, 1000),
    requoteThreshold    |-> Rat(2, 10000),
    assets              |-> << >>,
    defaultBias         |-> RInt(0),
    oracle              |-> [ sources |-> << "binance", "bybit" >>,
                              updateInterval |-> 5000,
                              cacheTimeout |-> 10000 ],
    cluster             |-> [ workerRestartDelay |-> 5000, maxRestarts |-> 5 ] ]

USDC_MINT_INDEX == 0

QuantityModes == {"fixed", "tiered"}

\* ------------------------------------------------------------------------
\* SpreadCalculator (src/core/priceOracle.ts)
\* ------------------------------------------------------------------------
\* levels.slice(0, k)
Slice(levels, k) ==
  SubSeq(levels, 1, IF k < Len(levels) THEN k ELSE Len(levels))

RECURSIVE sumDepth(_)
sumDepth(levels) ==
  IF Len(levels) = 0 THEN RInt(0)
  ELSE RAdd(levels[1].size, sumDepth(Tail(levels)))

clamp(value, min, max) ==
  RMax(min, RMin(max, value))

IMin(a, b) ==
  IF a < b THEN a ELSE b

\* computeDynamicSpread lines 735-741: (bidDepth - askDepth) / totalDepth
depthImbalance(bidDepth, askDepth) ==
  IF RGt(RAdd(bidDepth, askDepth), RInt(0))
  THEN RDiv(RSub(bidDepth, askDepth), RAdd(bidDepth, askDepth))
  ELSE RInt(0)

\* computeDynamicSpread lines 743-752: the clamped spread and the result
spreadCalculation(bidDepth, askDepth, imbalance) ==
  [ spread |-> clamp(RAdd(CONFIG.spread.min,
                          RMul(RAbs(imbalance),
                               RSub(CONFIG.spread.max, CONFIG.spread.min))),
                     CONFIG.spread.min, CONFIG.spread.max),
    imbalance |-> imbalance,
    bidDepth |-> bidDepth,
    askDepth |-> askDepth ]

depthSpread(bidDepth, askDepth) ==
  spreadCalculation(bidDepth, askDepth, depthImbalance(bidDepth, askDepth))

topLevels_configured(orderbook) ==
  CONFIG.spread.depthLevels

topLevels(orderbook) ==
  IMin(CONFIG.spread.depthLevels,
       IMin(Len(orderbook.bids), Len(orderbook.asks)))

computeDynamicSpread(orderbook) ==
  depthSpread(sumDepth(Slice(orderbook.bids, topLevels(orderbook))),
              sumDepth(Slice(orderbook.asks, topLevels(orderbook))))

\* A price the code may hold as null: [ok |-> FALSE] is null.
Null ==
  [ok |-> FALSE, v |-> RInt(0)]

Some(x) ==
  [ok |-> TRUE, v |-> x]

\* SpreadCalculator.getMidPrice
bookMidPrice(orderbook) ==
  IF Len(orderbook.bids) = 0 \/ Len(orderbook.asks) = 0 THEN Null
  ELSE Some(RDiv(RAdd(orderbook.bids[1].price, orderbook.asks[1].price), RInt(2)))

\* JavaScript truthiness of a number | null: null and 0 are falsy
Truthy(p) ==
  p.ok /\ ~RIsZero(p.v)

\* variant: the top-of-book spread limit is not applied
isOrderbookHealthy_noSpreadLimit(orderbook) ==
  IF Len(orderbook.bids) < 2 \/ Len(orderbook.asks) < 2 THEN FALSE
  ELSE Truthy(bookMidPrice(orderbook))

isOrderbookHealthy(orderbook) ==
  IF Len(orderbook.bids) < 2 \/ Len(orderbook.asks) < 2 THEN FALSE
  ELSE LET midPrice == bookMidPrice(orderbook)
       IN  IF ~Truthy(midPrice) THEN FALSE
           ELSE LET bestBid == orderbook.bids[1].price
                    bestAsk == orderbook.asks[1].price
                    currentSpread == RDiv(RSub(bestAsk, bestBid), midPrice.v)
                IN  IF RGt(currentSpread, Rat(5, 100)) THEN FALSE ELSE TRUE

\* ------------------------------------------------------------------------
\* RiskManager (src/core/risk.ts)
\* ------------------------------------------------------------------------
Allow ==
  [canTrade |-> TRUE, reason |-> "none"]

Deny(reason) ==
  [canTrade |-> FALSE, reason |-> reason]

\* balance?.availableAmount || 0
availableOf(u) ==
  IF USDC_MINT_INDEX \in DOMAIN u.balances
  THEN u.balances[USDC_MINT_INDEX].availableAmount ELSE RInt(0)

\* balance?.amount || 0
amountOf(u) ==
  IF USDC_MINT_INDEX \in DOMAIN u.balances
  THEN u.balances[USDC_MINT_INDEX].amount ELSE RInt(0)

\* Math.abs(position.size * position.entryPrice)
exposureOf(position) ==
  RAbs(RMul(position.size, position.entryPrice))

checkMarginFraction(marginFraction) ==
  IF RLt(marginFraction, CONFIG.risk.minMarginFraction)
  THEN Deny("Margin fraction too low")
  ELSE Allow

checkFreeCollateral_always(u) ==
  Deny("Insufficient free collateral")

checkFreeCollateral(u) ==
  IF USDC_MINT_INDEX \notin DOMAIN u.balances
  THEN Deny("No USDC balance found")
  ELSE IF RLt(u.balances[USDC_MINT_INDEX].availableAmount,
              CONFIG.risk.minFreeCollateral)
       THEN Deny("Insufficient free collateral")
       ELSE Allow

checkMarketExposure(u, marketId) ==
  IF marketId \notin DOMAIN u.positions THEN Allow
  ELSE LET maxPosition == RMul(availableOf(u), CONFIG.risk.maxExposurePerMarket)
           currentExposure == exposureOf(u.positions[marketId])
       IN  IF RGt(currentExposure, maxPosition)
           THEN Deny("Market exposure limit exceeded")
           ELSE Allow

RECURSIVE sumExposure(_, _)
sumExposure(positions, ms) ==
  IF ms = {} THEN RInt(0)
  ELSE LET m == CHOOSE x \in ms : TRUE
       IN  RAdd(exposureOf(positions[m]), sumExposure(positions, ms \ {m}))

\* totalExposure / totalCollateral > limit in IEEE arithmetic: x/0 is
\* Infinity for x > 0 and NaN for x = 0, and NaN > limit is false
ratioExceeds(totalExposure, totalCollateral, limit) ==
  IF RIsZero(totalCollateral) THEN RGt(totalExposure, RInt(0))
  ELSE RGt(RDiv(totalExposure, totalCollateral), limit)

checkTotalExposure_skipped(u) ==
  Allow

checkTotalExposure(u) ==
  LET totalCollateral == amountOf(u)
      totalExposure == sumExposure(u.positions, DOMAIN u.positions)
  IN  IF ratioExceeds(totalExposure, totalCollateral, CONFIG.risk.maxTotalExposure)
      THEN Deny("Total exposure limit exceeded")
      ELSE Allow

\* The four ordered checks of canQuote once fetchInfo and getLeverage have
\* returned; the first denial short-circuits.
canQuoteChecks(u, marginFraction, marketId) ==
  LET marginCheck == checkMarginFraction(marginFraction)
      collateralCheck == checkFreeCollateral(u)
      marketCheck == checkMarketExposure(u, marketId)
      totalCheck == checkTotalExposure(u)
  IN  IF ~marginCheck.canTrade THEN marginCheck
      ELSE IF ~collateralCheck.canTrade THEN collateralCheck
      ELSE IF ~marketCheck.canTrade THEN marketCheck
      ELSE IF ~totalCheck.canTrade THEN totalCheck
      ELSE Allow

getPositionRatio_unsigned(u, marketId, midPrice) ==
  IF marketId \in DOMAIN u.positions /\ ~RIsZero(availableOf(u))
  THEN RDiv(RAbs(RMul(u.positions[marketId].size, midPrice)),
            RMul(availableOf(u), CONFIG.risk.maxExposurePerMarket))
  ELSE RInt(0)

getPositionRatio(u, marketId, midPrice) ==
  IF marketId \notin DOMAIN u.positions THEN RInt(0)
  ELSE IF RIsZero(u.positions[marketId].size) THEN RInt(0)
  ELSE IF RIsZero(availableOf(u)) THEN RInt(0)
  ELSE LET positionValue == RMul(u.positions[marketId].size, midPrice)
           maxPositionValue == RMul(availableOf(u), CONFIG.risk.maxExposurePerMarket)
       IN  RDiv(positionValue, maxPositionValue)

\* ------------------------------------------------------------------------
\* InventoryManager (src/core/priceOracle.ts)
\* ------------------------------------------------------------------------
\* CONFIG.assets[marketId]?.bias || CONFIG.defaultBias
biasFor(assets, defaultBias, marketId) ==
  IF marketId \in DOMAIN assets
  THEN IF RIsZero(assets[marketId].bias) THEN defaultBias
       ELSE assets[marketId].bias
  ELSE defaultBias

\* the bias under the shipped configuration
biasOf(marketId) ==
  biasFor(CONFIG.assets, CONFIG.defaultBias, marketId)

\* applyInventorySkew lines 598-601
skewFactorOf(positionRatio) ==
  IF RGt(RAbs(positionRatio), Rat(5, 100))
  THEN RMul(positionRatio, CONFIG.inventorySkewFactor)
  ELSE RInt(0)

\* applyInventorySkew lines 603-609 and the result
skewedPrice(adjustedBasePrice, spread, skewFactor, bias, positionRatio) ==
  [ bidPrice |-> RMul(adjustedBasePrice, RSub(RInt(1), RDiv(spread, RInt(2)))),
    askPrice |-> RMul(adjustedBasePrice, RAdd(RInt(1), RDiv(spread, RInt(2)))),
    skewFactor |-> skewFactor, bias |-> bias, positionRatio |-> positionRatio ]

skewForFactor(basePrice, spread, skewFactor, bias, positionRatio) ==
  skewedPrice(RMul(basePrice, RAdd(RInt(1), RAdd(skewFactor, bias))),
              spread, skewFactor, bias, positionRatio)

skewForRatio(basePrice, spread, bias, positionRatio) ==
  skewForFactor(basePrice, spread, skewFactorOf(positionRatio), bias,
                positionRatio)

\* applyInventorySkew once its first line has read the bias
skewWithBias(bias, u, marketId, basePrice, spread) ==
  IF ~CONFIG.inventorySkewEnabled
  THEN [ bidPrice |-> RMul(basePrice,
                           RAdd(RSub(RInt(1), RDiv(spread, RInt(2))), bias)),
         askPrice |-> RMul(basePrice,
                           RAdd(RAdd(RInt(1), RDiv(spread, RInt(2))), bias)),
         skewFactor |-> RInt(0), bias |-> bias,
         positionRatio |-> RInt(0) ]
  ELSE skewForRatio(basePrice, spread, bias,
                    getPositionRatio(u, marketId, basePrice))

applyInventorySkew(u, marketId, basePrice, spread) ==
  skewWithBias(biasOf(marketId), u, marketId, basePrice, spread)

needsHedge(u, marketId, midPrice) ==
  IF ~cfg.autoHedgeEnabled THEN FALSE
  ELSE RGt(RAbs(getPositionRatio(u, marketId, midPrice)),
           CONFIG.autoHedge.imbalanceThreshold)

\* ------------------------------------------------------------------------
\* SizingCalculator (src/core/priceOracle.ts)
\* ------------------------------------------------------------------------
\* the sizing loops, for a configured maxLevels
calculateFixedSizesFor(maxLevels) ==
  [i \in 1..maxLevels |-> [level |-> i - 1, size |-> CONFIG.fixedSize]]

calculateFixedSizes ==
  calculateFixedSizesFor(CONFIG.maxLevels)

calculatePercentageSizes(freeCollateral) ==
  [i \in 1..CONFIG.maxLevels |->
     [level |-> i - 1, size |-> RMul(freeCollateral, CONFIG.percentPerLevel)]]

\* CONFIG.tieredMultipliers[i] || 0
multiplierAt(i) ==
  IF i <= Len(CONFIG.tieredMultipliers) THEN CONFIG.tieredMultipliers[i]
  ELSE RInt(0)

calculateTieredSizesFor(maxLevels, freeCollateral) ==
  LET maxPosition == RMul(freeCollateral, CONFIG.risk.maxExposurePerMarket)
  IN  [i \in 1..maxLevels |->
         [level |-> i - 1, size |-> RMul(maxPosition, multiplierAt(i))]]

calculateTieredSizes(freeCollateral) ==
  calculateTieredSizesFor(CONFIG.maxLevels, freeCollateral)

calculateLevelSizesFor(maxLevels, u, marketId) ==
  LET freeCollateral == availableOf(u)
  IN  IF RIsZero(freeCollateral) THEN << >>
      ELSE IF cfg.quantityMode = "fixed" THEN calculateFixedSizesFor(maxLevels)
      ELSE IF cfg.quantityMode = "percentage"
           THEN calculatePercentageSizes(freeCollateral)
      ELSE IF cfg.quantityMode = "tiered"
           THEN calculateTieredSizesFor(maxLevels, freeCollateral)
      ELSE calculateFixedSizesFor(maxLevels)

calculateLevelSizes(u, marketId) ==
  calculateLevelSizesFor(CONFIG.maxLevels, u, marketId)

\* Math.floor and Math.round of a non-negative number
MathFloor(x) ==
  x.n \div x.d

MathRound(x) ==
  (2 * x.n + x.d) \div (2 * x.d)

\* roundSize with its default stepSize
roundSize(size, minSize) ==
  IF RLt(size, minSize) THEN minSize
  ELSE RMul(RInt(MathFloor(RDiv(size, Rat(1, 100)))), Rat(1, 100))

RECURSIVE getTotalSize(_)
getTotalSize(levelSizes) ==
  IF Len(levelSizes) = 0 THEN RInt(0)
  ELSE RAdd(levelSizes[1].size, getTotalSize(Tail(levelSizes)))

validateSizes(levelSizes, freeCollateral, midPrice) ==
  LET totalSize == getTotalSize(levelSizes)
      totalValue == RMul(totalSize, midPrice)
      maxAllowed == RMul(freeCollateral, CONFIG.risk.maxExposurePerSide)
  IN  IF RGt(totalValue, maxAllowed) THEN FALSE ELSE TRUE

\* ------------------------------------------------------------------------
\* PriceOracle (src/core/priceOracle.ts)
\* ------------------------------------------------------------------------
RECURSIVE insertSorted(_, _)
insertSorted(sorted, x) ==
  IF Len(sorted) = 0 THEN << x >>
  ELSE IF RLt(x, sorted[1]) THEN << x >> \o sorted
  ELSE << sorted[1] >> \o insertSorted(Tail(sorted), x)

\* xs.sort((a, b) => a - b)
RECURSIVE sortAscending(_)
sortAscending(xs) ==
  IF Len(xs) = 0 THEN << >>
  ELSE insertSorted(sortAscending(Tail(xs)), xs[1])

fetchedPrice_midIsBid(bid, ask, t) ==
  [ bid |-> bid, ask |-> ask, mid |-> bid,
    spread |-> RDiv(RSub(ask, bid), bid), timestamp |-> t ]

\* the ExchangePrice a source adapter builds from a ticker's bid and ask
fetchedPrice(bid, ask, t) ==
  LET mid == RDiv(RAdd(bid, ask), RInt(2))
  IN  [ bid |-> bid, ask |-> ask, mid |-> mid,
        spread |-> RDiv(RSub(ask, bid), mid), timestamp |-> t ]

aggregatePrices_firstSource(prices, t) ==
  prices[1]

aggregatePrices(prices, t) ==
  LET mids == sortAscending([i \in 1..Len(prices) |-> prices[i].mid])
      bids == sortAscending([i \in 1..Len(prices) |-> prices[i].bid])
      asks == sortAscending([i \in 1..Len(prices) |-> prices[i].ask])
      medianIndex == Len(prices) \div 2
      bid == bids[medianIndex + 1]
      ask == asks[medianIndex + 1]
      mid == mids[medianIndex + 1]
  IN  [ bid |-> bid, ask |-> ask, mid |-> mid,
        spread |-> RDiv(RSub(ask, bid), mid), timestamp |-> t ]

\* cached && Date.now() - cached.timestamp < cacheTimeout, for a cache
\* lookup c (c.ok = FALSE when the symbol has no entry)
cacheHitFresh(c, t) ==
  c.ok /\ t - c.v.timestamp < CONFIG.oracle.cacheTimeout

\* this.cache.get(symbol)
cacheGet(cache, symbol) ==
  IF symbol \in DOMAIN cache THEN [ok |-> TRUE, v |-> cache[symbol]]
  ELSE [ok |-> FALSE, v |-> fetchedPrice(RInt(1), RInt(1), 0)]

NoPrice ==
  [ok |-> FALSE, v |-> fetchedPrice(RInt(1), RInt(1), 0)]

\* getPriceAge(symbol) < cacheTimeout; the age of a missing entry is Infinity
isPriceFresh(cache, symbol, t) ==
  IF symbol \notin DOMAIN cache THEN FALSE
  ELSE t - cache[symbol].timestamp < CONFIG.oracle.cacheTimeout

\* The value getPrice returns once Promise.allSettled has resolved with the
\* successful results `prices`; `cached` is the lookup made before the await.
getPriceResult(prices, cached, t) ==
  IF Len(prices) = 0 THEN cached
  ELSE [ok |-> TRUE, v |-> aggregatePrices(prices, t)]

getPriceCache_evictsOnFailure(cache, symbol, prices, t) ==
  IF Len(prices) = 0 THEN [s \in DOMAIN cache \ {symbol} |-> cache[s]]
  ELSE [s \in DOMAIN cache \cup {symbol} |->
          IF s = symbol THEN aggregatePrices(prices, t) ELSE cache[s]]

\* The cache after that call: set only when a source succeeded.
getPriceCache(cache, symbol, prices, t) ==
  IF Len(prices) = 0 THEN cache
  ELSE [s \in DOMAIN cache \cup {symbol} |->
          IF s = symbol THEN aggregatePrices(prices, t) ELSE cache[s]]

\* ------------------------------------------------------------------------
\* Bounds and input domains
\* ------------------------------------------------------------------------
MaxHandlers == 2
MaxEvents == 2
\* environment disturbances in one run: rejected venue calls, safety ticks,
\* account changes, clock advances
MaxDisturbances == 1

Slots ==
  1..MaxHandlers

\* processes forked for one worker id in one run
MaxForks == 7
\* calls of restartWorker in one run
MaxManualRestarts == 1

\* CONFIG.cluster.processGroups of a cluster deployment (cluster.enabled):
\* two workers with one market each; the worker id is the group's index
ProcessGroups ==
  << << 1 >>, << 2 >> >>

WorkerIds ==
  0..(Len(ProcessGroups) - 1)

Markets ==
  {1, 2}

\* market.symbol.replace('-PERP', '')
symbolOf(marketId) ==
  IF marketId = 1 THEN "SOL" ELSE "BTC"

Level(p, sz) ==
  [price |-> p, size |-> RInt(sz)]

Book(m, bids, asks) ==
  [marketId |-> m, bids |-> bids, asks |-> asks]

BookShapes ==
  { \* healthy, balanced, mid 100
    [bids |-> << Level(Rat(999, 10), 10), Level(Rat(998, 10), 10) >>,
     asks |-> << Level(Rat(1001, 10), 10), Level(Rat(1002, 10), 10) >>],
    \* asks empty: no mid price
    [bids |-> << Level(Rat(999, 10), 10), Level(Rat(998, 10), 10) >>,
     asks |-> << >>],
    \* one level a side
    [bids |-> << Level(Rat(999, 10), 10) >>,
     asks |-> << Level(Rat(1001, 10), 10) >>],
    \* top-of-book spread 10%
    [bids |-> << Level(RInt(95), 10), Level(RInt(94), 10) >>,
     asks |-> << Level(RInt(105), 10), Level(RInt(106), 10) >>] }

\* every shape for market 1, one healthy book for market 2
Books ==
  { Book(1, s.bids, s.asks) : s \in BookShapes } \cup
  { Book(2, << Level(Rat(999, 10), 10), Level(Rat(998, 10), 10) >>,
             << Level(Rat(1001, 10), 10), Level(Rat(1002, 10), 10) >>) }

EmptyBook ==
  Book(0, << >>, << >>)

Balance(amount, available) ==
  [amount |-> RInt(amount), availableAmount |-> RInt(available)]

Position(size, entryPrice) ==
  [size |-> size, entryPrice |-> RInt(entryPrice)]

NoPositions ==
  << >>

\* the account when the bot is launched: funded, no position
FundedFlat ==
  [balances |-> (0 :> Balance(1000, 1000)), positions |-> NoPositions]

\* Accounts the venue may hold (balances, positions): no USDC balance;
\* funded and flat; funded and long 2 in market 1
AccountStates ==
  { [balances |-> << >>, positions |-> NoPositions],
    FundedFlat,
    [balances |-> (0 :> Balance(1000, 1000)),
     positions |-> (1 :> Position(RInt(2), 100))] }

\* Accounts for the risk checks: every balance with every set of positions.
\* availableAmount never exceeds amount.
RiskBalances ==
  { << >>,
    0 :> Balance(1000, 1000),
    0 :> Balance(1000, 50),
    0 :> Balance(2000, 1000) }

RiskPositions ==
  { NoPositions,
    1 :> Position(RInt(2), 100),
    1 :> Position(RInt(-4), 100),
    2 :> Position(RInt(5), 100),
    (1 :> Position(RInt(2), 100)) @@ (2 :> Position(RInt(5), 100)) }

RiskAccounts ==
  { [balances |-> b, positions |-> p] : b \in RiskBalances, p \in RiskPositions }

\* values getLeverage() may return
MarginFractions ==
  { Rat(1, 10), Rat(1, 2) }

\* bid/ask pairs a source ticker may report
SourceQuotes ==
  << << RInt(124), RInt(126) >>, << RInt(99), RInt(101) >> >>

\* the successful results of one getPrice fan-out over CONFIG.oracle.sources:
\* both sources fail, the first answers, both answer
SourceOutcomes ==
  { << >>, << SourceQuotes[1] >>, SourceQuotes }

\* levels on one side of the deepest book a decision function is called on
MaxBookLevels == 6

\* n levels of size sz, the best at price best, each next one step further
SideOf(best, step, n, sz) ==
  [i \in 1..n |-> Level(RAdd(best, RMul(RInt(i - 1), step)), sz)]

\* Books for the direct calls: best bid below, at and above the best ask
\* (normal, locked, crossed), 0, 1, 2 or MaxBookLevels levels a side, level
\* sizes 0, 10 or 40
DecisionBooks ==
  { Book(1, SideOf(bid, Rat(-1, 10), nb, bsz), SideOf(ask, Rat(1, 10), na, asz)) :
      bid \in { RInt(95), Rat(999, 10), RInt(100), RInt(101) },
      ask \in { RInt(99), RInt(100), Rat(1001, 10), RInt(105) },
      nb \in { 0, 1, 2, MaxBookLevels }, na \in { 0, 1, 2, MaxBookLevels },
      bsz \in { 0, 10, 40 }, asz \in { 0, 10, 40 } }

\* Accounts for the direct calls: no balance, free collateral 1000 or 0, and
\* in market 1 no position, an empty one, or a long or short one inside the
\* 5% dead band of the skew, below, at and above the per-market exposure
\* limit of 300
DecisionAccounts ==
  { [balances |-> b, positions |-> p] :
      b \in { << >>, 0 :> Balance(1000, 1000), 0 :> Balance(1000, 0) },
      p \in { NoPositions } \cup
            { 1 :> Position(size, 100) :
                size \in { RInt(-4), RInt(-3), Rat(-1, 10), RInt(0),
                           Rat(1, 10), RInt(2), RInt(3) } } }

\* reference prices below, at and above the entry price of the positions
ReferencePrices ==
  { RInt(99), RInt(100), RInt(101), RInt(126) }

\* the assets section of a configuration: no entry for market 1, or an entry
\* with a zero, positive or negative bias
AssetConfigs ==
  { << >>, 1 :> [bias |-> RInt(0)], 1 :> [bias |-> Rat(1, 1000)],
    1 :> [bias |-> Rat(-1, 1000)] }

DefaultBiases ==
  { RInt(0), Rat(5, 10000) }

\* the spread the skew is applied with
SkewSpread ==
  Rat(2, 100)

\* source results in one aggregation
MaxSources == 3

\* bid/ask pairs of the tickers aggregated directly
TickerQuotes ==
  { << RInt(99), RInt(101) >>, << RInt(100), RInt(101) >>,
    << RInt(99), RInt(103) >>, << RInt(124), RInt(126) >> }

\* the successful results of a fan-out over up to MaxSources sources
TickerLists ==
  UNION { [1..n -> TickerQuotes] : n \in 1..MaxSources }

pricesOf(outcome, t) ==
  [i \in 1..Len(outcome) |-> fetchedPrice(outcome[i][1], outcome[i][2], t)]

\* ------------------------------------------------------------------------
\* MarketMakerLive (unnamed/part_003): decisions
\* ------------------------------------------------------------------------
vars ==
  << cfg, now, activeMarkets, handlerCount, subscribed, isRunning,
     requoteTimers, lastQuotePrices, currentQuotes, user, venueOrders,
     handlers, events, failures, stopPc, stopLog, oracle,
     tick, cluster, venueAccount, call, boot, backtest >>

NoRef ==
  [src |-> "none", mid |-> Null, age |-> 0]

\* getMidPrice once priceOracle.getPrice has returned cexPrice (NoPrice when
\* the oracle is disabled and getPrice is not called)
getMidPrice(cexPrice, cache, orderbook, t) ==
  LET symbol == symbolOf(orderbook.marketId)
      fromBook == [src |-> "book", mid |-> bookMidPrice(orderbook), age |-> 0]
  IN  IF cfg.oracleEnabled
      THEN IF cexPrice.ok /\ isPriceFresh(cache, symbol, t)
           THEN [src |-> "oracle", mid |-> Some(cexPrice.v.mid),
                 age |-> t - cexPrice.v.timestamp]
           ELSE IF ~cfg.fallbackToOrderbook
                THEN [src |-> "null", mid |-> Null, age |-> 0]
                ELSE fromBook
      ELSE fromBook

\* this.lastQuotePrices.get(marketId)
lastPricesGet(lqp, marketId) ==
  IF marketId \in DOMAIN lqp THEN [ok |-> TRUE, v |-> lqp[marketId]]
  ELSE [ok |-> FALSE, v |-> [bid |-> RInt(1), ask |-> RInt(1), timestamp |-> 0]]

\* variant: every change counts as exceeding the threshold
changeExceeds_always(new, last, threshold) ==
  TRUE

\* Math.abs(new - last) / last > threshold in IEEE arithmetic
changeExceeds(new, last, threshold) ==
  IF RIsZero(last) THEN ~RIsZero(new)
  ELSE RGt(RDiv(RAbs(RSub(new, last)), last), threshold)

\* variant: without a previous quote there is nothing to requote
shouldRequote_needsPrevious(lastPrices, newBidPrice, newAskPrice) ==
  /\ lastPrices.ok
  /\ \/ changeExceeds(newBidPrice, lastPrices.v.bid, CONFIG.requoteThreshold)
     \/ changeExceeds(newAskPrice, lastPrices.v.ask, CONFIG.requoteThreshold)

shouldRequote(lastPrices, newBidPrice, newAskPrice) ==
  IF ~lastPrices.ok THEN TRUE
  ELSE \/ changeExceeds(newBidPrice, lastPrices.v.bid, CONFIG.requoteThreshold)
       \/ changeExceeds(newAskPrice, lastPrices.v.ask, CONFIG.requoteThreshold)

\* number of levels generateQuoteLevels builds
ladderLevelsFor(maxLevels, levelSizes) ==
  IMin(maxLevels, Len(levelSizes))

ladderLevels(levelSizes) ==
  ladderLevelsFor(CONFIG.maxLevels, levelSizes)

\* A quote level keeps its price as the cycle's base price, spread and level
\* index: price = base * (1 -/+ spread * (level + 1) * 0.5)
generateQuoteLevelsFor(maxLevels, baseBidPrice, baseAskPrice, spread, levelSizes) ==
  [ bids |-> [i \in 1..ladderLevelsFor(maxLevels, levelSizes) |->
                [base |-> baseBidPrice, spread |-> spread, level |-> i - 1,
                 size |-> levelSizes[i].size]],
    asks |-> [i \in 1..ladderLevelsFor(maxLevels, levelSizes) |->
                [base |-> baseAskPrice, spread |-> spread, level |-> i - 1,
                 size |-> levelSizes[i].size]] ]

generateQuoteLevels(baseBidPrice, baseAskPrice, spread, levelSizes) ==
  generateQuoteLevelsFor(CONFIG.maxLevels, baseBidPrice, baseAskPrice, spread,
                         levelSizes)

\* the price of a bid and of an ask level: base * (1 -/+ spacing)
spacingOf(q) ==
  RMul(RMul(q.spread, RInt(q.level + 1)), Rat(1, 2))

bidLevelPrice(q) ==
  RMul(q.base, RSub(RInt(1), spacingOf(q)))

askLevelPrice(q) ==
  RMul(q.base, RAdd(RInt(1), spacingOf(q)))

\* Math.round(price / tickSize) * tickSize
roundPrice(price, tickSize) ==
  RMul(RInt(MathRound(RDiv(price, tickSize))), tickSize)

\* placeQuotes: the price and size of the order sent for a bid level
sentBid(market, q) ==
  [ price |-> roundPrice(bidLevelPrice(q), market.tickSize),
    size |-> roundSize(q.size, market.minSize) ]

sentAsk(market, q) ==
  [ price |-> roundPrice(askLevelPrice(q), market.tickSize),
    size |-> roundSize(q.size, market.minSize) ]

\* placeQuotes: the orders sent for a ladder, bids first
sentOrders(market, quotes) ==
  [ bids |-> [i \in 1..Len(quotes.bids) |-> sentBid(market, quotes.bids[i])],
    asks |-> [i \in 1..Len(quotes.asks) |-> sentAsk(market, quotes.asks[i])] ]

\* variant: the risk verdict is logged but not acted on
afterRiskCheck_ignored(riskCheck) ==
  "requote"

\* handleOrderbookUpdate: what follows the risk check
afterRiskCheck(riskCheck) ==
  IF ~riskCheck.canTrade THEN "return" ELSE "requote"

\* handleOrderbookUpdate: what follows the lookup and the health check
afterHealthCheck(active, orderbook) ==
  IF ~active THEN "return"
  ELSE IF ~isOrderbookHealthy(orderbook) THEN "return"
  ELSE "canQuote"

\* requote: what follows calculateLevelSizes and validateSizes
sizesAccepted(levelSizes, freeCollateral, midPrice) ==
  IF Len(levelSizes) = 0 THEN FALSE
  ELSE validateSizes(levelSizes, freeCollateral, midPrice)

\* ------------------------------------------------------------------------
\* MarketMakerLive: one invocation of handleOrderbookUpdate
\* ------------------------------------------------------------------------
NoGate ==
  [reached |-> FALSE, prev |-> lastPricesGet(<< >>, 0),
   bid |-> RInt(0), ask |-> RInt(0)]

\* no hedge decided in this invocation
NoHedge ==
  [ order |-> [side |-> "none", fillMode |-> "none", isReduceOnly |-> FALSE,
               size |-> RInt(0)],
    positionSize |-> RInt(0), ratio |-> RInt(0), outcome |-> "none" ]

\* pc is the await the invocation is suspended at.  The fields after idx
\* record what the invocation has done (its venue calls and map writes).
IdleHandler ==
  [ pc |-> "idle", ev |-> 0, marketId |-> 0, book |-> EmptyBook,
    cached |-> NoPrice, ref |-> NoRef, spread |-> RInt(0), gate |-> NoGate,
    marginFraction |-> RInt(0), risk |-> Deny("not run"),
    toCancel |-> {}, quotes |-> [bids |-> << >>, asks |-> << >>], idx |-> 0,
    sizes |-> "none",
    nFetch |-> 0, nCancel |-> 0, nBid |-> 0, nAsk |-> 0, nHedge |-> 0,
    hedge |-> NoHedge,
    wroteLQP |-> FALSE, wroteCQ |-> FALSE ]

InFlight(h) ==
  h.pc \notin {"idle", "done"}

\* HedgingEngine.executeHedge reaches user.placeOrder
executeHedgePlaces(u, marketId) ==
  /\ cfg.autoHedgeEnabled
  /\ marketId \in DOMAIN u.positions
  /\ ~RIsZero(u.positions[marketId].size)

\* executeHedge: the order handed to user.placeOrder
\* (variant first: the hedge is placed on the side of the position)
hedgeOrder_sameSide(position) ==
  [ side |-> IF RSign(position.size) > 0 THEN "bid" ELSE "ask",
    fillMode |-> "Market",
    isReduceOnly |-> TRUE,
    size |-> RMul(RAbs(position.size), Rat(3, 10)) ]

hedgeOrder(position) ==
  [ side |-> IF RSign(position.size) > 0 THEN "ask" ELSE "bid",
    fillMode |-> "Market",
    isReduceOnly |-> TRUE,
    size |-> RMul(RAbs(position.size), Rat(3, 10)) ]

\* the hedge an invocation has decided on: the order, and the cached position
\* and the position ratio it was decided from
hedgeDecided(u, marketId, midPrice) ==
  [ order |-> hedgeOrder(u.positions[marketId]),
    positionSize |-> u.positions[marketId].size,
    ratio |-> getPositionRatio(u, marketId, midPrice),
    outcome |-> "pending" ]

\* handleOrderbookUpdate lines 162-165, once getMidPrice has returned
hedgeAfterMid(h, u, ref) ==
  IF /\ Truthy(ref.mid)
     /\ needsHedge(u, h.marketId, ref.mid.v)
     /\ executeHedgePlaces(u, h.marketId)
  THEN [h EXCEPT !.pc = "hedge_place",
                 !.hedge = hedgeDecided(u, h.marketId, ref.mid.v)]
  ELSE [h EXCEPT !.pc = "done"]

\* handleOrderbookUpdate line 162: the second getMidPrice call
hedgePhase(h, u, cache, t) ==
  LET c == cacheGet(cache, symbolOf(h.marketId))
  IN  IF cfg.oracleEnabled
      THEN IF cacheHitFresh(c, t)
           THEN hedgeAfterMid(h, u, getMidPrice(c, cache, h.book, t))
           ELSE [h EXCEPT !.pc = "hedge_mid_fetch", !.cached = c]
      ELSE hedgeAfterMid(h, u, getMidPrice(NoPrice, cache, h.book, t))

\* requote lines 268-281: the requote gate, the lastQuotePrices write, up to
\* the fetchInfo await of cancelMarketOrders
requoteGate_storesOnSkip(h, u, lqp, cache, t, skewed) ==
  IF ~shouldRequote(h.gate.prev, skewed.bidPrice, skewed.askPrice)
  THEN [h |-> hedgePhase(h, u, cache, t),
        lqp |-> [m \in DOMAIN lqp \cup {h.marketId} |->
                   IF m = h.marketId
                   THEN [bid |-> skewed.bidPrice, ask |-> skewed.askPrice,
                         timestamp |-> t]
                   ELSE lqp[m]]]
  ELSE [h |-> [h EXCEPT !.pc = "cancel_fetch", !.wroteLQP = TRUE],
        lqp |-> [m \in DOMAIN lqp \cup {h.marketId} |->
                   IF m = h.marketId
                   THEN [bid |-> skewed.bidPrice, ask |-> skewed.askPrice,
                         timestamp |-> t]
                   ELSE lqp[m]]]

requoteGate(h, u, lqp, cache, t, skewed) ==
  IF ~shouldRequote(h.gate.prev, skewed.bidPrice, skewed.askPrice)
  THEN [h |-> hedgePhase(h, u, cache, t), lqp |-> lqp]
  ELSE [h |-> [h EXCEPT !.pc = "cancel_fetch", !.wroteLQP = TRUE],
        lqp |-> [m \in DOMAIN lqp \cup {h.marketId} |->
                   IF m = h.marketId
                   THEN [bid |-> skewed.bidPrice, ask |-> skewed.askPrice,
                         timestamp |-> t]
                   ELSE lqp[m]]]

\* requote lines 260-266: applyInventorySkew has returned skewed
requoteSkewed(h, u, lqp, cache, t, ref, spread, skewed) ==
  requoteGate([h EXCEPT !.ref = ref, !.spread = spread,
                        !.gate = [reached |-> TRUE,
                                  prev |-> lastPricesGet(lqp, h.marketId),
                                  bid |-> skewed.bidPrice,
                                  ask |-> skewed.askPrice]],
              u, lqp, cache, t, skewed)

\* requote lines 256-258: computeDynamicSpread has returned spread
requoteSpread(h, u, lqp, cache, t, ref, spread) ==
  requoteSkewed(h, u, lqp, cache, t, ref, spread,
                applyInventorySkew(u, h.marketId, ref.mid.v, spread))

\* requote lines 251-281, once getMidPrice has returned ref: the spread, the
\* skew, the requote gate.  Yields the invocation and lastQuotePrices.
requoteAfterMid(h, u, lqp, cache, t, ref) ==
  IF ~Truthy(ref.mid)
  THEN [h |-> hedgePhase([h EXCEPT !.ref = ref], u, cache, t), lqp |-> lqp]
  ELSE requoteSpread(h, u, lqp, cache, t, ref,
                     computeDynamicSpread(h.book).spread)

\* requote line 250: the first getMidPrice call
requoteStart(h, u, lqp, cache, t) ==
  LET c == cacheGet(cache, symbolOf(h.marketId))
  IN  IF cfg.oracleEnabled
      THEN IF cacheHitFresh(c, t)
           THEN requoteAfterMid(h, u, lqp, cache, t,
                                getMidPrice(c, cache, h.book, t))
           ELSE [h |-> [h EXCEPT !.pc = "mid_fetch", !.cached = c], lqp |-> lqp]
      ELSE requoteAfterMid(h, u, lqp, cache, t,
                           getMidPrice(NoPrice, cache, h.book, t))

\* requote lines 283-302, once cancelMarketOrders has returned: sizing,
\* validation, the ladder, up to the first placeOrder await of placeQuotes
afterCancel(h, u, cache, t) ==
  LET levelSizes == calculateLevelSizes(u, h.marketId)
  IN  IF ~sizesAccepted(levelSizes, availableOf(u), h.ref.mid.v)
      THEN hedgePhase([h EXCEPT !.sizes = "rejected"], u, cache, t)
      ELSE [h EXCEPT !.pc = "place", !.sizes = "accepted", !.idx = 0,
                     !.quotes = generateQuoteLevels(h.gate.bid, h.gate.ask,
                                                    h.spread, levelSizes)]

marketOrders_none(u, marketId) ==
  {}

\* Object.entries(user.orders).filter(order.marketId === marketId)
marketOrders(u, marketId) ==
  { o \in u.orders : o.marketId = marketId }

\* what fetchInfo loads into the NordUser
fetched(acct) ==
  [balances |-> acct.balances, positions |-> acct.positions,
   orders |-> venueOrders]

\* the process has not exited, and no finished invocation of the handler is
\* waiting for its promise to settle (Return)
Alive ==
  /\ stopPc # "done"
  /\ \A s \in Slots : handlers[s].pc # "done"

\* disturbances so far
Disturbances ==
  failures + tick.fired + venueAccount.changes
    + now \div CONFIG.oracle.cacheTimeout

CanDisturb ==
  Disturbances < MaxDisturbances

CanFail ==
  CanDisturb

\* ------------------------------------------------------------------------
\* Initial state: after the constructors of MarketMakerLive / PriceOracle /
\* ProcessManager
\* ------------------------------------------------------------------------
Option(hedge, oracleOn, fallback, mode) ==
  [ autoHedgeEnabled |-> hedge, oracleEnabled |-> oracleOn,
    fallbackToOrderbook |-> fallback, quantityMode |-> mode ]

\* the shipped CONFIG, and fixed-size configurations with every combination
\* of autoHedge.enabled, oracle.enabled and oracle.fallbackToOrderbook
Configs ==
  { Option(FALSE, TRUE, TRUE, "tiered") } \cup
  { Option(hedge, oracleOn, fallback, "fixed") :
      hedge \in BOOLEAN, oracleOn \in BOOLEAN, fallback \in BOOLEAN }

NoStopLog ==
  [cancelAll |-> "none", error |-> FALSE, todo |-> << >>]

InitOracle ==
  [cache |-> << >>, timers |-> 0, handle |-> FALSE, symbols |-> << >>,
   pending |-> {}]

\* ProcessManager after construction.  workers is the Map<number, WorkerInfo>;
\* procs are the forked worker processes that have not exited yet, each with
\* the WorkerInfo its exit handler closes over; timers[w] counts the pending
\* setTimeout callbacks of scheduleWorkerRestart; forks and timerForks count
\* the processes forked for a worker, in all and by a restart timer.
InitCluster ==
  [ workers |-> << >>,
    isShuttingDown |-> FALSE,
    procs |-> {},
    timers |-> [w \in WorkerIds |-> 0],
    forks |-> [w \in WorkerIds |-> 0],
    timerForks |-> [w \in WorkerIds |-> 0],
    startPc |-> "idle",
    nextGroup |-> 0,
    restarting |-> {},
    manual |-> 0,
    shutdownPc |-> "idle" ]

InitUser ==
  [balances |-> << >>, positions |-> << >>, orders |-> {}]

\* ------------------------------------------------------------------------
\* Process entry points (src/cli.ts live command, src/cluster/worker.ts)
\* ------------------------------------------------------------------------
RECURSIVE sumMultipliers(_)
sumMultipliers(multipliers) ==
  IF Len(multipliers) = 0 THEN RInt(0)
  ELSE RAdd(multipliers[1], sumMultipliers(Tail(multipliers)))

\* validateConfig: "ok", or the message of the Error it throws
validateConfig(config) ==
  IF ~RLt(config.spread.min, config.spread.max)
  THEN "spread.min must be less than spread.max"
  ELSE IF \/ RLe(config.risk.minMarginFraction, RInt(0))
          \/ RLe(RInt(1), config.risk.minMarginFraction)
  THEN "risk.minMarginFraction must be between 0 and 1"
  ELSE IF config.maxLevels < 1 \/ config.maxLevels > 10
  THEN "maxLevels must be between 1 and 10"
  ELSE IF /\ config.quantityMode = "tiered"
          /\ Len(config.tieredMultipliers) < config.maxLevels
  THEN "tieredMultipliers length must match or exceed maxLevels"
  ELSE IF RGt(RAbs(RSub(sumMultipliers(config.tieredMultipliers), RInt(1))),
              Rat(1, 100))
  THEN "tieredMultipliers must sum to approximately 1.0"
  ELSE IF \/ RLt(config.requoteThreshold, RInt(0))
          \/ RGt(config.requoteThreshold, Rat(1, 100))
  THEN "requoteThreshold must be between 0 and 0.01 (1%)"
  ELSE IF config.oracle.enabled /\ Len(config.oracle.sources) = 0
  THEN "oracle.sources must contain at least one source"
  ELSE IF config.cluster.enabled /\ Len(config.cluster.processGroups) = 0
  THEN "cluster.processGroups must contain at least one group"
  ELSE "ok"

\* the part of a BotConfig validateConfig reads: CONFIG with the options o
LaunchConfig(o) ==
  [ spread |-> CONFIG.spread, risk |-> CONFIG.risk,
    maxLevels |-> CONFIG.maxLevels, quantityMode |-> o.quantityMode,
    tieredMultipliers |-> CONFIG.tieredMultipliers,
    requoteThreshold |-> CONFIG.requoteThreshold,
    oracle |-> [enabled |-> o.oracleEnabled, sources |-> CONFIG.oracle.sources],
    cluster |-> [enabled |-> TRUE, processGroups |-> ProcessGroups],
    autoHedge |-> [enabled |-> o.autoHedgeEnabled,
                   imbalanceThreshold |-> CONFIG.autoHedge.imbalanceThreshold],
    assets |-> CONFIG.assets ]

\* a process as node starts it; exitCode is -1 until the process exits
Launched(entry, config, keySet) ==
  [ entry |-> entry, config |-> config, keySet |-> keySet, pc |-> "launched",
    validated |-> FALSE, exitCode |-> -1 ]

\* Configurations handed to validateConfig: the shipped one in tiered mode
\* with the oracle on, each with one setting changed, and two with two
\* settings changed
ValidationConfigs ==
  LET c == LaunchConfig(Option(FALSE, TRUE, TRUE, "tiered"))
  IN  { c,
        [c EXCEPT !.spread.min = c.spread.max],
        [c EXCEPT !.risk.minMarginFraction = RInt(0)],
        [c EXCEPT !.risk.minMarginFraction = RInt(1)],
        [c EXCEPT !.maxLevels = 0],
        [c EXCEPT !.maxLevels = 11],
        [c EXCEPT !.maxLevels = 4],
        [c EXCEPT !.quantityMode = "fixed", !.maxLevels = 4],
        [c EXCEPT !.tieredMultipliers = << Rat(5, 10), Rat(3, 10), Rat(1, 10) >>],
        [c EXCEPT !.tieredMultipliers = << Rat(5, 10), Rat(3, 10), Rat(21, 100) >>],
        [c EXCEPT !.requoteThreshold = Rat(2, 100)],
        [c EXCEPT !.requoteThreshold = Rat(-1, 100)],
        [c EXCEPT !.oracle.sources = << >>],
        [c EXCEPT !.oracle.sources = << >>, !.oracle.enabled = FALSE],
        [c EXCEPT !.cluster.processGroups = << >>],
        [c EXCEPT !.cluster.processGroups = << >>, !.cluster.enabled = FALSE],
        [c EXCEPT !.autoHedge.imbalanceThreshold = Rat(3, 2)],
        [c EXCEPT !.autoHedge.imbalanceThreshold = RInt(0)],
        [c EXCEPT !.assets = 1 :> [bias |-> Rat(5, 100)]],
        [c EXCEPT !.assets = 1 :> [bias |-> Rat(1, 1000)]],
        [c EXCEPT !.spread.min = c.spread.max, !.maxLevels = 0],
        [c EXCEPT !.maxLevels = 0, !.requoteThreshold = Rat(2, 100)] }

\* ------------------------------------------------------------------------
\* BacktestEngine (backtest engine) and its bars
\* ------------------------------------------------------------------------
MaxBars == 3

\* one-minute bars: timestamp += 60000
BarInterval == 60000

\* cancelOldOrders: const maxAge = 60000
MaxAge == 60000

\* constructor(initialBalance: number = 10000)
InitialBalance ==
  RInt(10000)

\* Bars the engine is run on: two closes, a book deeper on the bid side
\* (imbalance 17/22, spread 1/100). The fill draw of checkFills is taken
\* apart from the bar: every fill probability lies strictly between 0 and 1.
BacktestBars ==
  { [close |-> RInt(c), bidDepth |-> 78, askDepth |-> 10] : c \in {4000, 4400} }

\* at most the orders of the last two bars are unfilled when checkFills runs
MaxPending ==
  4 * MaxLevels

InitBacktest ==
  [ pc |-> "running",
    orders |-> << >>,
    position |-> [ size |-> RInt(0), entryPrice |-> RInt(0),
                   realizedPnl |-> RInt(0), unrealizedPnl |-> RInt(0) ],
    balance |-> InitialBalance,
    equity |-> << InitialBalance >>,
    bars |-> 0,
    placed |-> 0,
    fills |-> << >>,
    result |-> [numTrades |-> -1] ]

\* fillOrder: the position and balance after the fill of order
\* (variant first: the pnl of a reduced long is computed as that of a short)
fillOrder_shortPnl(b, order) ==
  LET sizeChange == IF order.side = "bid" THEN order.size ELSE RNeg(order.size)
      oldSize == b.position.size
      newSize == RAdd(oldSize, sizeChange)
      reduces == \/ (RSign(oldSize) > 0 /\ RSign(sizeChange) < 0)
                 \/ (RSign(oldSize) < 0 /\ RSign(sizeChange) > 0)
      closedSize == RMin(RAbs(oldSize), RAbs(sizeChange))
      pnl == IF ~reduces THEN RInt(0)
             ELSE RMul(closedSize, RSub(b.position.entryPrice, order.price))
      entryPrice ==
        IF RIsZero(newSize) THEN RInt(0)
        ELSE IF RSign(newSize) # RSign(oldSize) THEN order.price
        ELSE IF RGt(RAbs(newSize), RAbs(oldSize))
          THEN RDiv(RAdd(RMul(oldSize, b.position.entryPrice),
                         RMul(sizeChange, order.price)), newSize)
        ELSE b.position.entryPrice
  IN  [ b EXCEPT !.position.size = newSize,
                 !.position.entryPrice = entryPrice,
                 !.position.realizedPnl = RAdd(@, pnl),
                 !.balance = RAdd(@, pnl) ]

fillOrder(b, order) ==
  LET sizeChange == IF order.side = "bid" THEN order.size ELSE RNeg(order.size)
      oldSize == b.position.size
      newSize == RAdd(oldSize, sizeChange)
      reduces == \/ (RSign(oldSize) > 0 /\ RSign(sizeChange) < 0)
                 \/ (RSign(oldSize) < 0 /\ RSign(sizeChange) > 0)
      closedSize == RMin(RAbs(oldSize), RAbs(sizeChange))
      pnl == IF ~reduces THEN RInt(0)
             ELSE IF RSign(oldSize) > 0
               THEN RMul(closedSize, RSub(order.price, b.position.entryPrice))
               ELSE RMul(closedSize, RSub(b.position.entryPrice, order.price))
      entryPrice ==
        IF RIsZero(newSize) THEN RInt(0)
        ELSE IF RSign(newSize) # RSign(oldSize) THEN order.price
        ELSE IF RGt(RAbs(newSize), RAbs(oldSize))
          THEN RDiv(RAdd(RMul(oldSize, b.position.entryPrice),
                         RMul(sizeChange, order.price)), newSize)
        ELSE b.position.entryPrice
  IN  [ b EXCEPT !.position.size = newSize,
                 !.position.entryPrice = entryPrice,
                 !.position.realizedPnl = RAdd(@, pnl),
                 !.balance = RAdd(@, pnl) ]

\* the fill as the log keeps it: the order and the books before and after
fillRecord(before, after, order) ==
  [ side |-> order.side, price |-> order.price, size |-> order.size,
    sizeBefore |-> before.position.size,
    entryBefore |-> before.position.entryPrice,
    realizedBefore |-> before.position.realizedPnl,
    realizedAfter |-> after.position.realizedPnl,
    balanceBefore |-> before.balance,
    balanceAfter |-> after.balance ]

\* checkFills from order i on: the unfilled orders the draw selects are
\* filled in array order
RECURSIVE checkFills(_, _, _)
checkFills(b, drawn, i) ==
  IF i > Len(b.orders) THEN b
  ELSE IF b.orders[i].filled \/ i \notin drawn THEN checkFills(b, drawn, i + 1)
  ELSE checkFills(
         [ fillOrder(b, b.orders[i]) EXCEPT
             !.orders[i].filled = TRUE,
             !.fills = Append(@, fillRecord(b, fillOrder(b, b.orders[i]),
                                            b.orders[i])) ],
         drawn, i + 1)

\* the unfilled orders, and the ones whose rank among them is in the mask
pendingIndexes(orders) ==
  { i \in 1..Len(orders) : ~orders[i].filled }

drawnIndexes(orders, mask) ==
  { i \in pendingIndexes(orders) :
      Cardinality({ j \in pendingIndexes(orders) : j <= i }) \in mask }

cancelOldOrders_byAge(orders, currentTime) ==
  SelectSeq(orders, LAMBDA o : ~(currentTime - o.timestamp > MaxAge))

\* cancelOldOrders: unfilled orders older than maxAge are removed
cancelOldOrders(orders, currentTime) ==
  SelectSeq(orders,
            LAMBDA o : ~(~o.filled /\ currentTime - o.timestamp > MaxAge))

\* updateUnrealizedPnl
updateUnrealizedPnl(position, currentPrice) ==
  IF RIsZero(position.size) THEN RInt(0)
  ELSE IF RSign(position.size) > 0
    THEN RMul(position.size, RSub(currentPrice, position.entryPrice))
    ELSE RMul(position.size, RSub(position.entryPrice, currentPrice))

\* placeQuotes: the one-level book simulated around the close
simulatedOrderbook(bar) ==
  [ marketId |-> 1,
    bids |-> << Level(RMul(bar.close, Rat(999, 1000)), bar.bidDepth) >>,
    asks |-> << Level(RMul(bar.close, Rat(1001, 1000)), bar.askDepth) >> ]

\* placeQuotes: the bid and the ask of level i (0-based)
backtestQuotes(bar, timestamp, i) ==
  LET spread == computeDynamicSpread(simulatedOrderbook(bar)).spread
      bidPrice == RMul(bar.close, RSub(RInt(1), RDiv(spread, RInt(2))))
      askPrice == RMul(bar.close, RAdd(RInt(1), RDiv(spread, RInt(2))))
      spacing == RMul(RMul(spread, RInt(i + 1)), Rat(1, 2))
  IN  << [ side |-> "bid", price |-> RMul(bidPrice, RSub(RInt(1), spacing)),
           size |-> CONFIG.fixedSize, timestamp |-> timestamp,
           filled |-> FALSE ],
         [ side |-> "ask", price |-> RMul(askPrice, RAdd(RInt(1), spacing)),
           size |-> CONFIG.fixedSize, timestamp |-> timestamp,
           filled |-> FALSE ] >>

RECURSIVE backtestLadder(_, _, _)
backtestLadder(bar, timestamp, i) ==
  IF i >= CONFIG.maxLevels THEN << >>
  ELSE backtestQuotes(bar, timestamp, i) \o backtestLadder(bar, timestamp, i + 1)

\* calculateMetrics: wins and losses over consecutive filled orders
RECURSIVE tradeCount(_, _, _)
tradeCount(filledOrders, i, sign) ==
  IF i > Len(filledOrders) THEN 0
  ELSE LET prev == filledOrders[i - 1]
           curr == filledOrders[i]
           pnl == IF prev.side = "bid"
                  THEN RMul(RSub(curr.price, prev.price), prev.size)
                  ELSE RMul(RSub(prev.price, curr.price), prev.size)
       IN  (IF prev.side # curr.side /\ RSign(pnl) = sign THEN 1 ELSE 0)
           + tradeCount(filledOrders, i + 1, sign)

calculateMetrics(b) ==
  LET filledOrders == SelectSeq(b.orders, LAMBDA o : o.filled)
      totalOrders == Len(b.orders)
      endBalance == RAdd(b.balance, b.position.unrealizedPnl)
  IN  [ numTrades |-> Len(filledOrders),
        numWins |-> tradeCount(filledOrders, 2, 1),
        numLosses |-> tradeCount(filledOrders, 2, -1),
        fillRate |-> IF totalOrders > 0
                     THEN Rat(Len(filledOrders), totalOrders) ELSE RInt(0),
        startBalance |-> b.equity[1],
        endBalance |-> endBalance,
        totalPnl |-> RSub(endBalance, b.equity[1]) ]

\* no decision function has been called directly
NoCall ==
  [fn |-> "none"]

InitEngine(configs, accounts) ==
  /\ cfg \in configs
  /\ now = 0
  /\ activeMarkets = {}
  /\ handlerCount = 0
  /\ subscribed = {}
  /\ isRunning = FALSE
  /\ requoteTimers = {}
  /\ lastQuotePrices = << >>
  /\ currentQuotes = << >>
  /\ user = InitUser
  /\ venueOrders = {}
  /\ handlers = [s \in Slots |-> IdleHandler]
  /\ events = 0
  /\ failures = 0
  /\ stopPc = "idle"
  /\ stopLog = NoStopLog
  /\ oracle = InitOracle
  /\ tick = [pc |-> "idle", fired |-> 0, failed |-> 0]
  /\ cluster = InitCluster
  /\ venueAccount \in { [acct |-> a, changes |-> 0] : a \in accounts }
  /\ call = NoCall
  /\ backtest = InitBacktest

Booted ==
  [ Launched("cli", LaunchConfig(Option(FALSE, FALSE, TRUE, "fixed")), TRUE)
      EXCEPT !.pc = "start", !.validated = TRUE ]

\* the engine as the live command hands it to start(): configuration
\* validated, key present, NordUser initialised
InitWith(configs, accounts) ==
  /\ InitEngine(configs, accounts)
  /\ boot = Booted

\* the bot is launched on a funded, flat account
Init ==
  InitWith(Configs, {FundedFlat})

\* ------------------------------------------------------------------------
\* PriceOracle: background getPrice calls (startUpdates)
\* ------------------------------------------------------------------------
\* a set of markets as the sequence a Map iterates it in (insertion order)
RECURSIVE seqOf(_)
seqOf(ms) ==
  IF ms = {} THEN << >>
  ELSE LET m == CHOOSE x \in ms : \A y \in ms : x <= y
       IN  << m >> \o seqOf(ms \ {m})

\* for (const symbol of symbols) await this.getPrice(symbol): the first
\* symbol of `rest` whose getPrice has to fetch; fresh hits return at once
RECURSIVE timerRun(_, _, _)
timerRun(rest, cache, t) ==
  IF Len(rest) = 0 THEN {}
  ELSE LET c == cacheGet(cache, rest[1])
       IN  IF cacheHitFresh(c, t) THEN timerRun(Tail(rest), cache, t)
           ELSE { [kind |-> "timer", symbol |-> rest[1], cached |-> c,
                   rest |-> Tail(rest)] }

\* Promise.all(symbols.map(symbol => this.getPrice(symbol)))
initialFetch(symbols, cache, t) ==
  { [kind |-> "init", symbol |-> symbols[i], cached |-> cacheGet(cache, symbols[i]),
     rest |-> << >>] :
      i \in { j \in 1..Len(symbols) : ~cacheHitFresh(cacheGet(cache, symbols[j]), t) } }

startUpdates(o, symbols, t) ==
  IF ~cfg.oracleEnabled THEN o
  ELSE [o EXCEPT !.timers = @ + 1, !.handle = TRUE, !.symbols = symbols,
                 !.pending = @ \cup initialFetch(symbols, o.cache, t)]

\* PriceOracle.stop
oracleStop(o) ==
  IF o.handle THEN [o EXCEPT !.timers = @ - 1, !.handle = FALSE] ELSE o

OracleTimerFire ==
  /\ Alive
  /\ oracle.timers > 0
  /\ \A p \in oracle.pending : p.kind # "timer"
  /\ timerRun(oracle.symbols, oracle.cache, now) # {}
  /\ oracle' = [oracle EXCEPT
                  !.pending = @ \cup timerRun(oracle.symbols, oracle.cache, now)]
  /\ UNCHANGED << cfg, now, activeMarkets, handlerCount, subscribed, isRunning,
                  requoteTimers, lastQuotePrices, currentQuotes, user,
                  venueOrders, handlers, events, failures, stopPc, stopLog,
                  tick, cluster, call, boot,
                  backtest, venueAccount >>

OracleFetchDone ==
  /\ Alive
  /\ \E p \in oracle.pending, outcome \in SourceOutcomes :
       LET prices == pricesOf(outcome, now)
           cache1 == getPriceCache(oracle.cache, p.symbol, prices, now)
       IN  oracle' = [oracle EXCEPT
                        !.cache = cache1,
                        !.pending = (@ \ {p}) \cup timerRun(p.rest, cache1, now)]
  /\ UNCHANGED << cfg, now, activeMarkets, handlerCount, subscribed, isRunning,
                  requoteTimers, lastQuotePrices, currentQuotes, user,
                  venueOrders, handlers, events, failures, stopPc, stopLog,
                  tick, cluster, call, boot,
                  backtest, venueAccount >>

\* Date.now() is read by the oracle cache only
AdvanceClock ==
  /\ Alive
  /\ cfg.oracleEnabled
  /\ CanDisturb
  /\ now' = now + CONFIG.oracle.cacheTimeout
  /\ UNCHANGED << cfg, activeMarkets, handlerCount, subscribed, isRunning,
                  requoteTimers, lastQuotePrices, currentQuotes, user,
                  venueOrders, handlers, events, failures, stopPc, stopLog,
                  oracle, tick, cluster, call, boot,
                  backtest, venueAccount >>

\* ------------------------------------------------------------------------
\* The venue: fills, funding and transfers change the account
\* ------------------------------------------------------------------------
AccountChange ==
  /\ Alive
  /\ CanDisturb
  /\ \E acct \in AccountStates \ {venueAccount.acct} :
       venueAccount' = [acct |-> acct, changes |-> venueAccount.changes + 1]
  /\ UNCHANGED << cfg, now, activeMarkets, handlerCount, subscribed, isRunning,
                  requoteTimers, lastQuotePrices, currentQuotes, user,
                  venueOrders, handlers, events, failures, stopPc, stopLog,
                  oracle, tick, cluster, call, boot, backtest >>

\* ------------------------------------------------------------------------
\* MarketMakerLive: start (as called once by cli.ts `live`)
\* ------------------------------------------------------------------------
\* specificMarketId is falsy (0 / undefined) for "all markets"
StartSelections ==
  {0}

\* MarketMakerLive.start(specificMarketId): one call, which registers its own
\* callback with nord.onOrderbookUpdate
startCall(specificMarketId) ==
  /\ Alive
  /\ stopPc = "idle"
  /\ user' = fetched(venueAccount.acct)
  /\ LET loaded == IF specificMarketId # 0 THEN {specificMarketId} ELSE Markets
         active == activeMarkets \cup loaded
         order == seqOf(active)
         symbols == [i \in 1..Len(order) |-> symbolOf(order[i])]
     IN  /\ activeMarkets' = active
         /\ oracle' = startUpdates(oracle, symbols, now)
         /\ subscribed' = subscribed \cup active
         /\ requoteTimers' = requoteTimers \cup active
  /\ handlerCount' = handlerCount + 1
  /\ isRunning' = TRUE
  /\ UNCHANGED << cfg, now, lastQuotePrices, currentQuotes, venueOrders,
                  handlers, events, failures, stopPc, stopLog, tick, cluster, call, boot,
                  backtest, venueAccount >>

\* the live command calls start() once in the life of the process
Start(specificMarketId) ==
  /\ handlerCount = 0
  /\ startCall(specificMarketId)

\* ------------------------------------------------------------------------
\* MarketMakerLive: handleOrderbookUpdate, one action per await
\* ------------------------------------------------------------------------
FreeSlots ==
  { s \in Slots : ~InFlight(handlers[s]) }

\* The venue emits an orderbook event; the registered callback runs up to
\* its first await (canQuote's fetchInfo).
deliver(orderbook) ==
  /\ Alive
  /\ handlerCount >= 1
  /\ orderbook.marketId \in subscribed
  /\ FreeSlots # {}
  /\ LET s == CHOOSE x \in FreeSlots : \A y \in FreeSlots : x <= y
         h == [IdleHandler EXCEPT !.ev = events + 1,
                                  !.marketId = orderbook.marketId,
                                  !.book = orderbook]
         next == afterHealthCheck(orderbook.marketId \in activeMarkets, orderbook)
     IN  handlers' = [handlers EXCEPT ![s] =
                        IF next = "return" THEN [h EXCEPT !.pc = "done"]
                        ELSE [h EXCEPT !.pc = "risk_fetch"]]
  /\ events' = events + 1
  /\ UNCHANGED << cfg, now, activeMarkets, handlerCount, subscribed, isRunning,
                  requoteTimers, lastQuotePrices, currentQuotes, user,
                  venueOrders, failures, stopPc, stopLog, oracle, tick,
                  cluster, call, boot,
                  backtest, venueAccount >>

\* an orderbook event reaches the registered callback
Deliver(orderbook) ==
  /\ events < MaxEvents
  /\ deliver(orderbook)

\* handleOrderbookUpdate lines 149-159 once canQuote has returned riskCheck
riskReturned(h, riskCheck, u, lqp, cache, t) ==
  LET h1 == [h EXCEPT !.risk = riskCheck]
  IN  IF afterRiskCheck(riskCheck) = "return"
      THEN [h |-> [h1 EXCEPT !.pc = "done"], lqp |-> lqp]
      ELSE requoteStart(h1, u, lqp, cache, t)

\* canQuote: user.fetchInfo() settles
RiskFetch(s) ==
  /\ Alive
  /\ handlers[s].pc = "risk_fetch"
  /\ \/ /\ user' = fetched(venueAccount.acct)
        /\ handlers' = [handlers EXCEPT ![s].pc = "risk_lev",
                                        ![s].nFetch = @ + 1]
        /\ UNCHANGED << failures, lastQuotePrices >>
     \/ /\ CanFail
        /\ failures' = failures + 1
        /\ LET r == riskReturned([handlers[s] EXCEPT !.nFetch = @ + 1],
                                 Deny("Risk check error"), user,
                                 lastQuotePrices, oracle.cache, now)
           IN  /\ handlers' = [handlers EXCEPT ![s] = r.h]
               /\ lastQuotePrices' = r.lqp
        /\ UNCHANGED user
  /\ UNCHANGED << cfg, now, activeMarkets, handlerCount, subscribed, isRunning,
                  requoteTimers, currentQuotes, venueOrders, events, stopPc,
                  stopLog, oracle, tick, cluster, call, boot,
                  backtest, venueAccount >>

\* canQuote: user.getLeverage() settles, the four checks run, and on allow
\* requote runs up to its first await
RiskLeverage(s) ==
  /\ Alive
  /\ handlers[s].pc = "risk_lev"
  /\ \/ /\ \E mf \in MarginFractions :
             LET h1 == [handlers[s] EXCEPT !.marginFraction = mf]
                 r == riskReturned(h1, canQuoteChecks(user, mf, h1.marketId),
                                   user, lastQuotePrices, oracle.cache, now)
             IN  /\ handlers' = [handlers EXCEPT ![s] = r.h]
                 /\ lastQuotePrices' = r.lqp
        /\ UNCHANGED failures
     \/ /\ CanFail
        /\ failures' = failures + 1
        /\ LET r == riskReturned(handlers[s], Deny("Risk check error"), user,
                                 lastQuotePrices, oracle.cache, now)
           IN  /\ handlers' = [handlers EXCEPT ![s] = r.h]
               /\ lastQuotePrices' = r.lqp
  /\ UNCHANGED << cfg, now, activeMarkets, handlerCount, subscribed, isRunning,
                  requoteTimers, currentQuotes, user, venueOrders, events,
                  stopPc, stopLog, oracle, tick, cluster, call, boot,
                  backtest, venueAccount >>

\* requote: the getPrice fan-out of getMidPrice settles
MidFetch(s) ==
  /\ Alive
  /\ handlers[s].pc = "mid_fetch"
  /\ \E outcome \in SourceOutcomes :
       LET h == handlers[s]
           prices == pricesOf(outcome, now)
           cexPrice == getPriceResult(prices, h.cached, now)
           cache1 == getPriceCache(oracle.cache, symbolOf(h.marketId), prices, now)
           r == requoteAfterMid(h, user, lastQuotePrices, cache1, now,
                                getMidPrice(cexPrice, cache1, h.book, now))
       IN  /\ oracle' = [oracle EXCEPT !.cache = cache1]
           /\ handlers' = [handlers EXCEPT ![s] = r.h]
           /\ lastQuotePrices' = r.lqp
  /\ UNCHANGED << cfg, now, activeMarkets, handlerCount, subscribed, isRunning,
                  requoteTimers, currentQuotes, user, venueOrders, events,
                  failures, stopPc, stopLog, tick, cluster, call, boot,
                  backtest, venueAccount >>

\* cancelMarketOrders: user.fetchInfo() settles
CancelFetch(s) ==
  /\ Alive
  /\ handlers[s].pc = "cancel_fetch"
  /\ \/ /\ LET u1 == fetched(venueAccount.acct)
               h1 == [handlers[s] EXCEPT !.nFetch = @ + 1]
               mo == marketOrders(u1, h1.marketId)
           IN  /\ user' = u1
               /\ handlers' = [handlers EXCEPT ![s] =
                    IF mo = {} THEN afterCancel(h1, u1, oracle.cache, now)
                    ELSE [h1 EXCEPT !.pc = "cancel", !.toCancel = mo]]
        /\ UNCHANGED failures
     \/ /\ CanFail
        /\ failures' = failures + 1
        /\ handlers' = [handlers EXCEPT ![s] =
             afterCancel([handlers[s] EXCEPT !.nFetch = @ + 1], user,
                         oracle.cache, now)]
        /\ UNCHANGED user
  /\ UNCHANGED << cfg, now, activeMarkets, handlerCount, subscribed, isRunning,
                  requoteTimers, lastQuotePrices, currentQuotes, venueOrders,
                  events, stopPc, stopLog, oracle, tick, cluster, call, boot,
                  backtest, venueAccount >>

\* cancelMarketOrders: one user.cancelOrder(orderId) settles
CancelStep(s) ==
  /\ Alive
  /\ handlers[s].pc = "cancel"
  /\ LET h == handlers[s]
         o == CHOOSE x \in h.toCancel : TRUE
         h1 == [h EXCEPT !.toCancel = @ \ {o}, !.nCancel = @ + 1]
     IN  /\ handlers' = [handlers EXCEPT ![s] =
              IF h1.toCancel = {} THEN afterCancel(h1, user, oracle.cache, now)
              ELSE h1]
         /\ \/ /\ venueOrders' = venueOrders \ {o}
               /\ UNCHANGED failures
            \/ /\ CanFail
               /\ failures' = failures + 1
               /\ UNCHANGED venueOrders
  /\ UNCHANGED << cfg, now, activeMarkets, handlerCount, subscribed, isRunning,
                  requoteTimers, lastQuotePrices, currentQuotes, user, events,
                  stopPc, stopLog, oracle, tick, cluster, call, boot,
                  backtest, venueAccount >>

limitOrder_reduceOnly(h, side, q) ==
  [id |-> << h.ev, side, q.level >>, marketId |-> h.marketId, side |-> side,
   fillMode |-> "Limit", isReduceOnly |-> TRUE]

limitOrder(h, side, q) ==
  [id |-> << h.ev, side, q.level >>, marketId |-> h.marketId, side |-> side,
   fillMode |-> "Limit", isReduceOnly |-> FALSE]

\* placeQuotes: one user.placeOrder settles; after the last one requote
\* records currentQuotes and the handler goes on to the hedge check
PlaceStep(s) ==
  /\ Alive
  /\ handlers[s].pc = "place"
  /\ LET h == handlers[s]
         n == Len(h.quotes.bids)
         side == IF h.idx < n THEN "Bid" ELSE "Ask"
         q == IF h.idx < n THEN h.quotes.bids[h.idx + 1]
              ELSE h.quotes.asks[h.idx - n + 1]
         h1 == [h EXCEPT !.idx = @ + 1,
                         !.nBid = IF side = "Bid" THEN @ + 1 ELSE @,
                         !.nAsk = IF side = "Ask" THEN @ + 1 ELSE @]
         last == h1.idx = n + Len(h.quotes.asks)
     IN  /\ handlers' = [handlers EXCEPT ![s] =
              IF last
              THEN hedgePhase([h1 EXCEPT !.wroteCQ = TRUE], user, oracle.cache, now)
              ELSE h1]
         /\ currentQuotes' =
              IF last
              THEN [m \in DOMAIN currentQuotes \cup {h.marketId} |->
                      IF m = h.marketId
                      THEN [marketId |-> h.marketId, bids |-> h.quotes.bids,
                            asks |-> h.quotes.asks, timestamp |-> now]
                      ELSE currentQuotes[m]]
              ELSE currentQuotes
         /\ \/ /\ venueOrders' = venueOrders \cup {limitOrder(h, side, q)}
               /\ UNCHANGED failures
            \/ /\ CanFail
               /\ failures' = failures + 1
               /\ UNCHANGED venueOrders
  /\ UNCHANGED << cfg, now, activeMarkets, handlerCount, subscribed, isRunning,
                  requoteTimers, lastQuotePrices, user, events, stopPc,
                  stopLog, oracle, tick, cluster, call, boot,
                  backtest, venueAccount >>

\* handleOrderbookUpdate line 162: the getPrice fan-out of the second
\* getMidPrice settles
HedgeMidFetch(s) ==
  /\ Alive
  /\ handlers[s].pc = "hedge_mid_fetch"
  /\ \E outcome \in SourceOutcomes :
       LET h == handlers[s]
           prices == pricesOf(outcome, now)
           cexPrice == getPriceResult(prices, h.cached, now)
           cache1 == getPriceCache(oracle.cache, symbolOf(h.marketId), prices, now)
       IN  /\ oracle' = [oracle EXCEPT !.cache = cache1]
           /\ handlers' = [handlers EXCEPT ![s] =
                hedgeAfterMid(h, user, getMidPrice(cexPrice, cache1, h.book, now))]
  /\ UNCHANGED << cfg, now, activeMarkets, handlerCount, subscribed, isRunning,
                  requoteTimers, lastQuotePrices, currentQuotes, user,
                  venueOrders, events, failures, stopPc, stopLog, tick,
                  cluster, call, boot,
                  backtest, venueAccount >>

\* executeHedge: user.placeOrder (market, reduce-only) settles; a market
\* order does not rest, and a failure is swallowed
HedgePlace(s) ==
  /\ Alive
  /\ handlers[s].pc = "hedge_place"
  /\ \/ /\ handlers' = [handlers EXCEPT ![s].pc = "done", ![s].nHedge = @ + 1,
                                         ![s].hedge.outcome = "placed"]
        /\ UNCHANGED failures
     \/ /\ CanFail
        /\ handlers' = [handlers EXCEPT ![s].pc = "done", ![s].nHedge = @ + 1,
                                         ![s].hedge.outcome = "failed"]
        /\ failures' = failures + 1
  /\ UNCHANGED << cfg, now, activeMarkets, handlerCount, subscribed, isRunning,
                  requoteTimers, lastQuotePrices, currentQuotes, user,
                  venueOrders, events, stopPc, stopLog, oracle, tick,
                  cluster, call, boot,
                  backtest, venueAccount >>

\* the promise of a finished invocation settles; nothing is left of it
Return(s) ==
  /\ handlers[s].pc = "done"
  /\ handlers' = [handlers EXCEPT ![s] = IdleHandler]
  /\ UNCHANGED << cfg, now, activeMarkets, handlerCount, subscribed, isRunning,
                  requoteTimers, lastQuotePrices, currentQuotes, user,
                  venueOrders, events, failures, stopPc, stopLog, oracle,
                  tick, cluster, call, boot,
                  backtest, venueAccount >>

\* ------------------------------------------------------------------------
\* MarketMakerLive: periodic safety tick (setupPeriodicRequote)
\* ------------------------------------------------------------------------
\* the setInterval callback of a market runs up to its fetchInfo await
tickFire(marketId) ==
  /\ Alive
  /\ marketId \in requoteTimers
  /\ tick.pc = "idle"
  /\ IF ~isRunning
     THEN /\ requoteTimers' = requoteTimers \ {marketId}
          /\ tick' = [tick EXCEPT !.fired = @ + 1]
     ELSE /\ tick' = [tick EXCEPT !.pc = "fetch", !.fired = @ + 1]
          /\ UNCHANGED requoteTimers
  /\ UNCHANGED << cfg, now, activeMarkets, handlerCount, subscribed, isRunning,
                  lastQuotePrices, currentQuotes, user, venueOrders, handlers,
                  events, failures, stopPc, stopLog, oracle, cluster, call, boot,
                  backtest, venueAccount >>

TickFire(marketId) ==
  /\ CanDisturb
  /\ tickFire(marketId)

refreshFailed_stopsTick(t) ==
  [t EXCEPT !.pc = "stopped", !.failed = @ + 1]

\* the catch of the tick's refresh: the rejection is logged, the interval
\* stays armed
refreshFailed(t) ==
  [t EXCEPT !.pc = "idle", !.failed = @ + 1]

\* the tick's user.fetchInfo() settles
tickFetch(canFail) ==
  /\ Alive
  /\ tick.pc = "fetch"
  /\ \/ /\ user' = fetched(venueAccount.acct)
        /\ tick' = [tick EXCEPT !.pc = "idle"]
        /\ UNCHANGED failures
     \/ /\ canFail
        /\ failures' = failures + 1
        /\ tick' = refreshFailed(tick)
        /\ UNCHANGED user
  /\ UNCHANGED << cfg, now, activeMarkets, handlerCount, subscribed, isRunning,
                  requoteTimers, lastQuotePrices, currentQuotes, venueOrders,
                  handlers, events, stopPc, stopLog, oracle, cluster, call, boot,
                  backtest, venueAccount >>

TickFetch ==
  /\ tick.pc = "fetch"
  /\ tickFetch(CanFail)

\* ------------------------------------------------------------------------
\* MarketMakerLive: stop (SIGINT / SIGTERM), followed by process.exit
\* ------------------------------------------------------------------------
\* lines 480-496: everything before the emergencyCancelAll await
StopBegin ==
  /\ Alive
  /\ stopPc = "idle"
  /\ handlerCount >= 1
  /\ isRunning' = FALSE
  /\ requoteTimers' = {}
  /\ oracle' = oracleStop(oracle)
  /\ stopPc' = "cancel_all"
  /\ UNCHANGED << cfg, now, activeMarkets, handlerCount, subscribed,
                  lastQuotePrices, currentQuotes, user, venueOrders, handlers,
                  events, failures, stopLog, tick, cluster, call, boot,
                  backtest, venueAccount >>

\* where stop() goes once the steps before `todo` are done
stopContinue(todo) ==
  IF Len(todo) = 0 THEN "done" ELSE "unsub"

\* where stop() goes when an awaited call rejects: its single catch block
stopOnError ==
  "done"

\* emergencyCancelAll: user.cancelAllOrders() settles; a rejection is
\* rethrown into stop()'s catch
StopCancelAll ==
  /\ Alive
  /\ stopPc = "cancel_all"
  /\ \/ /\ venueOrders' = {}
        /\ stopLog' = [stopLog EXCEPT !.cancelAll = "ok",
                                      !.todo = seqOf(activeMarkets)]
        /\ stopPc' = stopContinue(seqOf(activeMarkets))
        /\ UNCHANGED failures
     \/ /\ CanFail
        /\ failures' = failures + 1
        /\ stopLog' = [stopLog EXCEPT !.cancelAll = "failed", !.error = TRUE,
                                      !.todo = seqOf(activeMarkets)]
        /\ stopPc' = stopOnError
        /\ UNCHANGED venueOrders
  /\ UNCHANGED << cfg, now, activeMarkets, handlerCount, subscribed, isRunning,
                  requoteTimers, lastQuotePrices, currentQuotes, user,
                  handlers, events, oracle, tick, cluster, call, boot,
                  backtest, venueAccount >>

\* one nord.unsubscribeOrderbook(marketId) settles
StopUnsub ==
  /\ Alive
  /\ stopPc = "unsub"
  /\ \/ /\ subscribed' = subscribed \ {Head(stopLog.todo)}
        /\ stopLog' = [stopLog EXCEPT !.todo = Tail(@)]
        /\ stopPc' = stopContinue(Tail(stopLog.todo))
        /\ UNCHANGED failures
     \/ /\ CanFail
        /\ failures' = failures + 1
        /\ stopLog' = [stopLog EXCEPT !.error = TRUE]
        /\ stopPc' = stopOnError
        /\ UNCHANGED subscribed
  /\ UNCHANGED << cfg, now, activeMarkets, handlerCount, isRunning,
                  requoteTimers, lastQuotePrices, currentQuotes, user,
                  venueOrders, handlers, events, oracle, tick, cluster, call, boot,
                  backtest, venueAccount >>

\* ------------------------------------------------------------------------
\* ProcessManager: the supervisor of the cluster workers
\* ------------------------------------------------------------------------
engineVars ==
  << cfg, now, activeMarkets, handlerCount, subscribed, isRunning,
     requoteTimers, lastQuotePrices, currentQuotes, user, venueOrders,
     handlers, events, failures, stopPc, stopLog, oracle, tick, venueAccount >>

\* the process startWorker forks and the WorkerInfo it builds: restarts: 0
forkedWorker(c, workerId) ==
  [workerId |-> workerId, gen |-> c.forks[workerId] + 1, restarts |-> 0,
   killed |-> "none"]

\* this.workers.set(workerId, workerInfo)
workersSet(workers, workerId, info) ==
  [w \in DOMAIN workers \cup {workerId} |->
     IF w = workerId THEN info ELSE workers[w]]

\* this.workers.delete(workerId)
workersDelete(workers, workerId) ==
  [w \in DOMAIN workers \ {workerId} |-> workers[w]]

startWorker_unguarded(c, workerId) ==
  [c EXCEPT !.procs = @ \cup {forkedWorker(c, workerId)},
            !.workers = workersSet(@, workerId, forkedWorker(c, workerId)),
            !.forks[workerId] = @ + 1]

startWorker(c, workerId) ==
  IF c.isShuttingDown THEN c
  ELSE [c EXCEPT !.procs = @ \cup {forkedWorker(c, workerId)},
                 !.workers = workersSet(@, workerId, forkedWorker(c, workerId)),
                 !.forks[workerId] = @ + 1]

scheduleWorkerRestart(c, workerId, currentRestarts) ==
  IF currentRestarts + 1 > CONFIG.cluster.maxRestarts THEN c
  ELSE [c EXCEPT !.timers[workerId] = @ + 1]

\* the 'exit' handler of process p (code 1 stands for any non-zero or null
\* exit code)
onExit(c, p, code) ==
  IF ~c.isShuttingDown /\ code # 0
  THEN scheduleWorkerRestart(
         [c EXCEPT !.procs = @ \ {p},
                   !.workers = workersDelete(@, p.workerId)],
         p.workerId, p.restarts)
  ELSE [c EXCEPT !.procs = @ \ {p},
                 !.workers = workersDelete(@, p.workerId)]

\* worker.process.kill(signal) on the processes of infos
killAll(procs, infos, signal) ==
  { IF p \in infos THEN [p EXCEPT !.killed = signal] ELSE p : p \in procs }

\* the infos in the workers map
mapped(c) ==
  { c.workers[w] : w \in DOMAIN c.workers }

\* startCluster: one iteration of its loop over processGroups
StartClusterStep ==
  /\ cluster.startPc \in {"idle", "loop"}
  /\ cluster.nextGroup \in WorkerIds
  /\ cluster.isShuttingDown \/ cluster.forks[cluster.nextGroup] < MaxForks
  /\ cluster' = [startWorker(cluster, cluster.nextGroup) EXCEPT
                   !.nextGroup = @ + 1,
                   !.startPc = IF cluster.nextGroup + 1 = Len(ProcessGroups)
                               THEN "done" ELSE "loop"]
  /\ UNCHANGED << engineVars, call, boot, backtest >>

\* a worker process exits; a SIGKILLed one never with code 0
WorkerExit(workerId, gen, code) ==
  /\ \E p \in cluster.procs :
       /\ p.workerId = workerId
       /\ p.gen = gen
       /\ p.killed = "SIGKILL" => code # 0
       /\ cluster' = onExit(cluster, p, code)
  /\ UNCHANGED << engineVars, call, boot, backtest >>

\* the setTimeout callback of scheduleWorkerRestart
RestartTimerFire(workerId) ==
  /\ cluster.timers[workerId] > 0
  /\ cluster.isShuttingDown \/ cluster.forks[workerId] < MaxForks
  /\ cluster' = [startWorker([cluster EXCEPT !.timers[workerId] = @ - 1],
                             workerId) EXCEPT
                   !.timerForks[workerId] =
                      IF cluster.isShuttingDown THEN @ ELSE @ + 1]
  /\ UNCHANGED << engineVars, call, boot, backtest >>

\* restartWorker up to its 2 s wait
RestartWorkerBegin(workerId) ==
  /\ cluster.manual < MaxManualRestarts
  /\ workerId \notin cluster.restarting
  /\ workerId \in DOMAIN cluster.workers
  /\ cluster' = [cluster EXCEPT
                   !.procs = killAll(@, {cluster.workers[workerId]}, "SIGTERM"),
                   !.workers = workersDelete(@, workerId),
                   !.restarting = @ \cup {workerId},
                   !.manual = @ + 1]
  /\ UNCHANGED << engineVars, call, boot, backtest >>

\* restartWorker after the wait: startWorker
RestartWorkerResume(workerId) ==
  /\ workerId \in cluster.restarting
  /\ cluster.isShuttingDown \/ cluster.forks[workerId] < MaxForks
  /\ cluster' = startWorker([cluster EXCEPT !.restarting = @ \ {workerId}],
                            workerId)
  /\ UNCHANGED << engineVars, call, boot, backtest >>

\* shutdown up to its 5 s wait
ShutdownBegin ==
  /\ cluster.shutdownPc = "idle"
  /\ cluster' = [cluster EXCEPT !.isShuttingDown = TRUE,
                                !.shutdownPc = "waiting"]
  /\ UNCHANGED << engineVars, call, boot, backtest >>

\* shutdown after the wait: SIGKILL what is still in the map, clear the map
ShutdownKill ==
  /\ cluster.shutdownPc = "waiting"
  /\ cluster' = [cluster EXCEPT
                   !.procs = killAll(@, mapped(cluster), "SIGKILL"),
                   !.workers = << >>,
                   !.shutdownPc = "done"]
  /\ UNCHANGED << engineVars, call, boot, backtest >>

\* ------------------------------------------------------------------------
\* The supervisor of a two-worker cluster
\* ------------------------------------------------------------------------
InitSupervisor ==
  InitWith({ Option(FALSE, TRUE, TRUE, "tiered") }, {FundedFlat})

NextCluster ==
  \/ StartClusterStep
  \/ \E w \in WorkerIds, gen \in 1..MaxForks, code \in {0, 1} :
       WorkerExit(w, gen, code)
  \/ \E w \in WorkerIds : RestartTimerFire(w)
  \/ \E w \in WorkerIds : RestartWorkerBegin(w)
  \/ \E w \in WorkerIds : RestartWorkerResume(w)
  \/ ShutdownBegin
  \/ ShutdownKill

SpecCluster ==
  InitSupervisor /\ [][NextCluster]_vars

\* ------------------------------------------------------------------------
\* The decision functions called directly, on inputs drawn from bounded sets
\* ------------------------------------------------------------------------
\* PriceOracle.aggregatePrices on the results of a fan-out
AggregateCall ==
  /\ call.fn = "none"
  /\ \E quotes \in TickerLists :
       call' = [fn |-> "aggregatePrices",
                prices |-> pricesOf(quotes, now),
                result |-> aggregatePrices(pricesOf(quotes, now), now)]
  /\ UNCHANGED << engineVars, cluster, boot, backtest >>

\* SpreadCalculator.isOrderbookHealthy on a book
HealthCall ==
  /\ call.fn = "none"
  /\ \E book \in DecisionBooks :
       call' = [fn |-> "isOrderbookHealthy", book |-> book,
                result |-> isOrderbookHealthy(book)]
  /\ UNCHANGED << engineVars, cluster, boot, backtest >>

\* SpreadCalculator.computeDynamicSpread on a book
SpreadCall ==
  /\ call.fn = "none"
  /\ \E book \in DecisionBooks :
       call' = [fn |-> "computeDynamicSpread", book |-> book,
                result |-> computeDynamicSpread(book)]
  /\ UNCHANGED << engineVars, cluster, boot, backtest >>

\* The position ratio of one quote cycle: canQuote's checks and then
\* getPositionRatio on the same NordUser
PositionRatioCall ==
  /\ call.fn = "none"
  /\ \E u \in DecisionAccounts, mf \in MarginFractions, midPrice \in ReferencePrices :
       call' = [fn |-> "getPositionRatio", user |-> u, marketId |-> 1,
                midPrice |-> midPrice,
                riskCheck |-> canQuoteChecks(u, mf, 1),
                result |-> getPositionRatio(u, 1, midPrice)]
  /\ UNCHANGED << engineVars, cluster, boot, backtest >>

\* InventoryManager.applyInventorySkew under a configuration's assets and
\* defaultBias
SkewCall ==
  /\ call.fn = "none"
  /\ \E u \in DecisionAccounts, basePrice \in ReferencePrices,
        assets \in AssetConfigs, defaultBias \in DefaultBiases :
       call' = [fn |-> "applyInventorySkew", user |-> u, marketId |-> 1,
                basePrice |-> basePrice, spread |-> SkewSpread,
                assets |-> assets, defaultBias |-> defaultBias,
                result |-> skewWithBias(biasFor(assets, defaultBias, 1), u, 1,
                                        basePrice, SkewSpread)]
  /\ UNCHANGED << engineVars, cluster, boot, backtest >>

\* validateConfig on a configuration
ValidateCall ==
  /\ call.fn = "none"
  /\ \E config \in ValidationConfigs :
       call' = [fn |-> "validateConfig", config |-> config,
                result |-> validateConfig(config)]
  /\ UNCHANGED << engineVars, cluster, boot, backtest >>

InitDecisions ==
  InitWith({ Option(FALSE, TRUE, TRUE, "tiered") }, {FundedFlat})

\* ------------------------------------------------------------------------
\* MarketSimulator.generateBar
\* ------------------------------------------------------------------------
\* volatility and trendStrength as the scenarios hand them to generateBar:
\* generate, generateIlliquidMarket, generateTrendingMarket (up, down),
\* generateRangingMarket
SimulatorScenarios ==
  { [volatility |-> Rat(2, 100), trendStrength |-> Rat(1, 10000)],
    [volatility |-> Rat(4, 100), trendStrength |-> Rat(1, 10000)],
    [volatility |-> Rat(2, 100), trendStrength |-> Rat(1, 1000)],
    [volatility |-> Rat(2, 100), trendStrength |-> Rat(-1, 1000)],
    [volatility |-> Rat(1, 100), trendStrength |-> Rat(1, 10000)] }

\* values of Math.random(), in [0, 1)
UniformDraws ==
  { RInt(0), Rat(1, 2), Rat(9, 10) }

\* values of randomNormal()
NormalDraws ==
  { RInt(-2), Rat(-1, 2), RInt(0), Rat(1, 2), RInt(2) }

SimulatorPrices ==
  { RInt(50), RInt(100) }

\* drift = trendStrength * (Math.random() - 0.5)
driftOf(trendStrength, u) ==
  RMul(trendStrength, RSub(u, Rat(1, 2)))

\* randomWalk = volatility * randomNormal()
randomWalkOf(volatility, z) ==
  RMul(volatility, z)

\* close = currentPrice + currentPrice * (drift + randomWalk)
closeOf(currentPrice, drift, randomWalk) ==
  RAdd(currentPrice, RMul(currentPrice, RAdd(drift, randomWalk)))

\* open, high, low and close of the bar (volume and depths are further
\* independent draws)
ohlc(currentPrice, close, randomWalk) ==
  [ open |-> currentPrice,
    high |-> RMul(close, RAdd(RInt(1), RMul(RAbs(randomWalk), Rat(1, 2)))),
    low |-> RMul(close, RSub(RInt(1), RMul(RAbs(randomWalk), Rat(1, 2)))),
    close |-> close ]

generateBar(currentPrice, scenario, u, z) ==
  ohlc(currentPrice,
       closeOf(currentPrice, driftOf(scenario.trendStrength, u),
               randomWalkOf(scenario.volatility, z)),
       randomWalkOf(scenario.volatility, z))

BarCall ==
  /\ call.fn = "none"
  /\ \E currentPrice \in SimulatorPrices, scenario \in SimulatorScenarios,
        u \in UniformDraws, z \in NormalDraws :
       call' = [fn |-> "generateBar", currentPrice |-> currentPrice,
                scenario |-> scenario, u |-> u, z |-> z,
                result |-> generateBar(currentPrice, scenario, u, z)]
  /\ UNCHANGED << engineVars, cluster, boot, backtest >>

NextDecisions ==
  \/ AggregateCall
  \/ HealthCall
  \/ SpreadCall
  \/ PositionRatioCall
  \/ SkewCall
  \/ ValidateCall
  \/ BarCall

SpecDecisions ==
  InitDecisions /\ [][NextDecisions]_vars

\* ------------------------------------------------------------------------
\* BacktestEngine.run on bars drawn one at a time
\* ------------------------------------------------------------------------
\* one iteration of run(): checkFills, cancelOldOrders, updateUnrealizedPnl,
\* placeQuotes, equity.push
runBar(b, bar, mask) ==
  LET timestamp == b.bars * BarInterval
      filled == checkFills(b, drawnIndexes(b.orders, mask), 1)
      kept == cancelOldOrders(filled.orders, timestamp)
      unrealizedPnl == updateUnrealizedPnl(filled.position, bar.close)
      ladder == backtestLadder(bar, timestamp, 0)
  IN  [ filled EXCEPT !.orders = kept \o ladder,
                      !.position.unrealizedPnl = unrealizedPnl,
                      !.equity = Append(@, RAdd(filled.balance, unrealizedPnl)),
                      !.bars = @ + 1,
                      !.placed = @ + Len(ladder) ]

BacktestBar(bar, mask) ==
  /\ backtest.pc = "running"
  /\ backtest.bars < MaxBars
  /\ backtest' = runBar(backtest, bar, mask)
  /\ UNCHANGED << engineVars, cluster, call, boot >>

\* the end of run(): calculateMetrics
BacktestFinish ==
  /\ backtest.pc = "running"
  /\ backtest' = [ backtest EXCEPT !.pc = "done",
                                   !.result = calculateMetrics(backtest) ]
  /\ UNCHANGED << engineVars, cluster, call, boot >>

InitBacktestRun ==
  InitWith({ Option(FALSE, TRUE, TRUE, "fixed") }, {FundedFlat})

NextBacktest ==
  \/ \E bar \in BacktestBars, mask \in SUBSET (1..MaxPending) :
       BacktestBar(bar, mask)
  \/ BacktestFinish

SpecBacktest ==
  InitBacktestRun /\ [][NextBacktest]_vars

\* ------------------------------------------------------------------------
\* The live engine quoting around the orderbook mid (oracle.enabled = false)
\* ------------------------------------------------------------------------
InitBook ==
  /\ Init
  /\ ~cfg.oracleEnabled
  /\ cfg.fallbackToOrderbook

Next ==
  \/ AccountChange
  \/ \E sel \in StartSelections : Start(sel)
  \/ \E b \in Books : Deliver(b)
  \/ \E s \in Slots : RiskFetch(s)
  \/ \E s \in Slots : RiskLeverage(s)
  \/ \E s \in Slots : CancelFetch(s)
  \/ \E s \in Slots : CancelStep(s)
  \/ \E s \in Slots : PlaceStep(s)
  \/ \E s \in Slots : HedgePlace(s)
  \/ \E s \in Slots : Return(s)
  \/ \E m \in Markets : TickFire(m)
  \/ TickFetch
  \/ StopBegin
  \/ StopCancelAll
  \/ StopUnsub

Spec ==
  InitBook /\ [][Next]_vars

\* ------------------------------------------------------------------------
\* Booting a process: the live command of the CLI or a cluster worker, on the
\* shipped configuration or an invalid one, with or without the private key
\* ------------------------------------------------------------------------
BootOption ==
  Option(FALSE, FALSE, TRUE, "fixed")

\* the configuration as shipped, and two that validateConfig rejects
BootConfigs ==
  { LaunchConfig(BootOption),
    [LaunchConfig(BootOption) EXCEPT !.spread.min = CONFIG.spread.max],
    [LaunchConfig(BootOption) EXCEPT !.requoteThreshold = Rat(2, 100)] }

BootSelections ==
  {0} \cup Markets

\* process.exit(1) from the catch block
exited(b) ==
  [b EXCEPT !.pc = "exited", !.exitCode = 1]

\* cli.ts live action lines 36-49, worker.ts start lines 33-44: up to the
\* first await
BootLaunch ==
  /\ boot.pc = "launched"
  /\ boot' = IF boot.entry = "cli" /\ validateConfig(boot.config) # "ok"
             THEN exited(boot)
             ELSE IF ~boot.keySet THEN exited(boot)
             ELSE [boot EXCEPT !.pc = "user",
                               !.validated = (boot.entry = "cli")]
  /\ UNCHANGED << engineVars, cluster, call, backtest >>

\* updateAccountId and fetchInfo settle, or one of them rejects
BootUser ==
  /\ boot.pc = "user"
  /\ \/ boot' = [boot EXCEPT !.pc = "start"]
     \/ boot' = exited(boot)
  /\ UNCHANGED << engineVars, cluster, call, backtest >>

\* marketMaker.start: the live command passes --market or nothing, a worker
\* the markets of its group
BootStart(specificMarketId) ==
  /\ boot.pc = "start"
  /\ IF boot.entry = "worker"
     THEN /\ specificMarketId # 0
          /\ specificMarketId \notin activeMarkets
          /\ startCall(specificMarketId)
     ELSE Start(specificMarketId)

InitBoot ==
  /\ InitEngine({BootOption}, {FundedFlat})
  /\ boot \in { Launched(entry, config, keySet) :
                  entry \in {"cli", "worker"}, config \in BootConfigs,
                  keySet \in BOOLEAN }

NextBoot ==
  \/ BootLaunch
  \/ BootUser
  \/ \E sel \in BootSelections : BootStart(sel)
  \/ AccountChange
  \/ \E b \in Books : Deliver(b)
  \/ \E s \in Slots : RiskFetch(s)
  \/ \E s \in Slots : RiskLeverage(s)
  \/ \E s \in Slots : CancelFetch(s)
  \/ \E s \in Slots : CancelStep(s)
  \/ \E s \in Slots : PlaceStep(s)
  \/ \E s \in Slots : Return(s)
  \/ \E m \in Markets : TickFire(m)
  \/ TickFetch
  \/ StopBegin
  \/ StopCancelAll
  \/ StopUnsub

SpecBoot ==
  InitBoot /\ [][NextBoot]_vars

\* ------------------------------------------------------------------------
\* The live engine started on an account that holds a position, with and
\* without autoHedge
\* ------------------------------------------------------------------------
HedgeAccounts ==
  { [balances |-> (0 :> Balance(1000, 1000)),
     positions |-> (1 :> Position(size, 100))] :
      size \in { RInt(-2), Rat(-1, 10), RInt(0), Rat(1, 10), RInt(2) } }

InitHedge ==
  InitWith({ Option(hedge, FALSE, TRUE, "fixed") : hedge \in BOOLEAN },
           HedgeAccounts)

NextHedge ==
  \/ \E sel \in StartSelections : Start(sel)
  \/ \E b \in Books : Deliver(b)
  \/ \E s \in Slots : RiskFetch(s)
  \/ \E s \in Slots : RiskLeverage(s)
  \/ \E s \in Slots : CancelFetch(s)
  \/ \E s \in Slots : PlaceStep(s)
  \/ \E s \in Slots : HedgePlace(s)
  \/ \E s \in Slots : Return(s)

SpecHedge ==
  InitHedge /\ [][NextHedge]_vars

\* ------------------------------------------------------------------------
\* The requote gate under a drifting book: three events of market 1 whose
\* mids lie 0.015 % apart, on a funded, flat account
\* ------------------------------------------------------------------------
DriftingBook(mid) ==
  Book(1, << Level(RSub(mid, Rat(1, 10)), 10), Level(RSub(mid, Rat(2, 10)), 10) >>,
          << Level(RAdd(mid, Rat(1, 10)), 10), Level(RAdd(mid, Rat(2, 10)), 10) >>)

GateMids ==
  { RInt(100), Rat(20003, 200), Rat(10003, 100) }

GateBooks ==
  { DriftingBook(mid) : mid \in GateMids }

GateDeliver(orderbook) ==
  /\ events < MaxEvents + 1
  /\ deliver(orderbook)

InitGate ==
  InitWith({ Option(FALSE, FALSE, TRUE, "fixed") }, {FundedFlat})

NextGate ==
  \/ \E sel \in StartSelections : Start(sel)
  \/ \E b \in GateBooks : GateDeliver(b)
  \/ \E s \in Slots : RiskFetch(s)
  \/ \E s \in Slots : RiskLeverage(s)
  \/ \E s \in Slots : CancelFetch(s)
  \/ \E s \in Slots : CancelStep(s)
  \/ \E s \in Slots : PlaceStep(s)
  \/ \E s \in Slots : Return(s)

SpecGate ==
  InitGate /\ [][NextGate]_vars

\* ------------------------------------------------------------------------
\* The periodic safety tick next to the quote cycles and stop(): the tick
\* may fire once more than elsewhere, and its refresh may fail
\* ------------------------------------------------------------------------
TickAgain(marketId) ==
  /\ tick.fired < MaxDisturbances + 1
  /\ tickFire(marketId)

TickSettle ==
  /\ tick.pc = "fetch"
  /\ tickFetch(tick.failed < MaxDisturbances)

InitTick ==
  InitWith({ Option(FALSE, FALSE, TRUE, "fixed") }, {FundedFlat})

NextTick ==
  \/ \E sel \in StartSelections : Start(sel)
  \/ \E b \in Books : Deliver(b)
  \/ \E s \in Slots : RiskFetch(s)
  \/ \E s \in Slots : RiskLeverage(s)
  \/ \E s \in Slots : CancelFetch(s)
  \/ \E s \in Slots : PlaceStep(s)
  \/ \E s \in Slots : Return(s)
  \/ \E m \in Markets : TickAgain(m)
  \/ TickSettle
  \/ StopBegin
  \/ StopCancelAll
  \/ StopUnsub

SpecTick ==
  InitTick /\ [][NextTick]_vars

\* ------------------------------------------------------------------------
\* A cluster worker with the oracle on: startMarketMaking calls start() once
\* per market of its group, each call reaching startUpdates; then stop()
\* ------------------------------------------------------------------------
InitWorkerOracle ==
  /\ InitEngine({ Option(FALSE, TRUE, TRUE, "fixed") }, {FundedFlat})
  /\ boot = [ Launched("worker", LaunchConfig(Option(FALSE, TRUE, TRUE, "fixed")), TRUE)
                EXCEPT !.pc = "start" ]

NextWorkerOracle ==
  \/ \E sel \in BootSelections : BootStart(sel)
  \/ OracleTimerFire
  \/ OracleFetchDone
  \/ AdvanceClock
  \/ StopBegin
  \/ StopCancelAll
  \/ StopUnsub

SpecWorkerOracle ==
  InitWorkerOracle /\ [][NextWorkerOracle]_vars

\* ------------------------------------------------------------------------
\* One quote cycle from the risk check to the orders placeQuotes sends, as a
\* direct computation: the first cycle of a market (nothing to compare the
\* prices with, so the requote gate lets it through)
\* ------------------------------------------------------------------------
\* maxLevels as shipped
LadderLevels == 3

\* tickSize and minSize of the markets the venue lists
VenueMarkets ==
  { [tickSize |-> Rat(1, 100), minSize |-> Rat(1, 100)],
    [tickSize |-> Rat(1, 10), minSize |-> Rat(1, 10)],
    [tickSize |-> Rat(1, 100), minSize |-> RInt(10)] }

LadderMids ==
  { Rat(1, 2), RInt(3), RInt(100) }

\* accounts and spreads of a cycle: flat accounts at the minimum spread and at
\* 1%, an account long 2 in market 1 at 1%
LadderInputs ==
  { [user |-> [balances |-> b, positions |-> NoPositions], spread |-> sp] :
      b \in { 0 :> Balance(1000, 1000), 0 :> Balance(100, 100) },
      sp \in { CONFIG.spread.min, Rat(1, 100) } } \cup
  { [user |-> [balances |-> (0 :> Balance(1000, 1000)),
               positions |-> (1 :> Position(RInt(2), 100))],
     spread |-> Rat(1, 100)] }

NothingSent ==
  [bids |-> << >>, asks |-> << >>]

\* requote lines 283-298 and placeQuotes
cycleOrders(maxLevels, u, market, midPrice, spread, skewed) ==
  LET levelSizes == calculateLevelSizesFor(maxLevels, u, 1)
  IN  IF ~sizesAccepted(levelSizes, availableOf(u), midPrice)
      THEN [outcome |-> "rejected", sent |-> NothingSent]
      ELSE [outcome |-> "placed",
            sent |-> sentOrders(market,
                       generateQuoteLevelsFor(maxLevels, skewed.bidPrice,
                                              skewed.askPrice, spread,
                                              levelSizes))]

\* handleOrderbookUpdate lines 150-159 and requote for market 1
quoteCycle(maxLevels, u, marginFraction, market, midPrice, spread) ==
  IF afterRiskCheck(canQuoteChecks(u, marginFraction, 1)) = "return"
  THEN [outcome |-> "denied", sent |-> NothingSent]
  ELSE cycleOrders(maxLevels, u, market, midPrice, spread,
                   applyInventorySkew(u, 1, midPrice, spread))

CycleCall ==
  /\ call.fn = "none"
  /\ \E maxLevels \in 1..LadderLevels, in \in LadderInputs,
        market \in VenueMarkets, midPrice \in LadderMids :
       call' = [fn |-> "requote", maxLevels |-> maxLevels, user |-> in.user,
                market |-> market, midPrice |-> midPrice, spread |-> in.spread,
                result |-> quoteCycle(maxLevels, in.user, Rat(1, 2), market,
                                      midPrice, in.spread)]
  /\ UNCHANGED << engineVars, cluster, boot, backtest >>

InitLadder ==
  InitWith({ Option(FALSE, FALSE, TRUE, mode) : mode \in QuantityModes },
           {FundedFlat})

NextLadder ==
  CycleCall

SpecLadder ==
  InitLadder /\ [][NextLadder]_vars

\* ------------------------------------------------------------------------
\* MarketSimulator: the bar loops of the scenario generators and the
\* simulate command.  A generated series is kept as the timestamps of its
\* bars; the prices of a bar are those of generateBar above.
\* ------------------------------------------------------------------------
\* constructor: numBars: config.numBars || 1000
DefaultNumBars == 1000

\* new MarketSimulator(config): 0 stands for a numBars that is not given
\* (and a given 0 is falsy too)
MarketSimulator(numBars) ==
  [ numBars |-> IF numBars = 0 THEN DefaultNumBars ELSE numBars ]

\* for (let i = 0; i < n; i++) { bars.push(bar at timestamp);
\* timestamp += 60000 }, started at timestamp = start
barLoop(start, n) ==
  [ i \in 1..n |-> start + (i - 1) * BarInterval ]

\* generate(): timestamp = Date.now() - this.config.numBars * 60000, one bar
\* for each i < this.config.numBars
generate(config, t) ==
  barLoop(t - config.numBars * BarInterval, config.numBars)

\* generateIlliquidMarket(steps): timestamp = Date.now() - steps * 60000, one
\* bar for each i < steps
generateIlliquidMarket(config, steps, t) ==
  barLoop(t - steps * BarInterval, steps)

\* generateTrendingMarket(steps, uptrend): sets trendStrength, returns
\* this.generate(), restores trendStrength
generateTrendingMarket(config, steps, t) ==
  generate(config, t)

\* generateRangingMarket(steps): sets trendStrength and volatility, returns
\* this.generate(), restores both
generateRangingMarket(config, steps, t) ==
  generate(config, t)

\* -t <type>: the three scenarios, and any other word (default branch)
SimulateTypes ==
  { "illiquid", "trending", "ranging", "other" }

\* -s <number> after parseInt
SimulateSteps ==
  0..MaxBars \cup { DefaultNumBars }

\* values of Date.now() when the series is generated
SimulateNows ==
  { 0, 59999, 60000, 86400000, 1700000000, 1700000001 }

\* the simulate command up to the generated data: new MarketSimulator() and
\* the switch on options.type
simulate(steps, type, t) ==
  CASE type = "illiquid" ->
         generateIlliquidMarket(MarketSimulator(0), steps, t)
    [] type = "trending" ->
         generateTrendingMarket(MarketSimulator(0), steps, t)
    [] type = "ranging" ->
         generateRangingMarket(MarketSimulator(0), steps, t)
    [] OTHER -> generate(MarketSimulator(0), t)

SimulateCall ==
  /\ call.fn = "none"
  /\ \E steps \in SimulateSteps, type \in SimulateTypes, t \in SimulateNows :
       call' = [fn |-> "simulate", steps |-> steps, type |-> type,
                now |-> t, result |-> simulate(steps, type, t)]
  /\ UNCHANGED << engineVars, cluster, boot, backtest >>

InitSimulate ==
  InitDecisions

NextSimulate ==
  SimulateCall

SpecSimulate ==
  InitSimulate /\ [][NextSimulate]_vars

\* ------------------------------------------------------------------------
\* Quote cycles of two markets when the events of one market are handled one
\* after the other: an event of a market arrives only when no invocation for
\* that market is in flight.  The book of market 1 moves by 0.03 %.
\* ------------------------------------------------------------------------
SerialBooks ==
  { DriftingBook(RInt(100)), DriftingBook(Rat(10003, 100)),
    Book(2, << Level(Rat(999, 10), 10), Level(Rat(998, 10), 10) >>,
            << Level(Rat(1001, 10), 10), Level(Rat(1002, 10), 10) >>) }

SerialDeliver(orderbook) ==
  /\ events < MaxEvents + 1
  /\ \A s \in Slots :
       InFlight(handlers[s]) => handlers[s].marketId # orderbook.marketId
  /\ deliver(orderbook)

InitSerial ==
  InitWith({ Option(FALSE, FALSE, TRUE, "fixed") }, {FundedFlat})

NextSerial ==
  \/ \E sel \in StartSelections : Start(sel)
  \/ \E b \in SerialBooks : SerialDeliver(b)
  \/ \E s \in Slots : RiskFetch(s)
  \/ \E s \in Slots : RiskLeverage(s)
  \/ \E s \in Slots : CancelFetch(s)
  \/ \E s \in Slots : CancelStep(s)
  \/ \E s \in Slots : PlaceStep(s)
  \/ \E s \in Slots : Return(s)

SpecSerial ==
  InitSerial /\ [][NextSerial]_vars

\* ------------------------------------------------------------------------
\* The risk gate on its own: the engine started on any account of
\* RiskAccounts with no reference price configured (oracle off, no orderbook
\* fallback), so that every invocation ends once canQuote has returned
\* ------------------------------------------------------------------------
InitRisk ==
  InitWith({ Option(FALSE, FALSE, FALSE, "fixed") }, RiskAccounts)

NextRisk ==
  \/ AccountChange
  \/ \E sel \in StartSelections : Start(sel)
  \/ \E b \in Books : Deliver(b)
  \/ \E s \in Slots : RiskFetch(s)
  \/ \E s \in Slots : RiskLeverage(s)
  \/ \E s \in Slots : Return(s)

SpecRisk ==
  InitRisk /\ [][NextRisk]_vars

\* ------------------------------------------------------------------------
\* The live engine quoting around the oracle price (oracle.enabled = true,
\* autoHedge off), started for one market, with the oracle's refresher
\* ------------------------------------------------------------------------
InitOracleOn ==
  /\ Init
  /\ cfg.oracleEnabled
  /\ ~cfg.autoHedgeEnabled
  /\ cfg.quantityMode = "fixed"

NextOracle ==
  \/ \E sel \in Markets \ {2} : Start(sel)
  \/ \E b \in Books : Deliver(b)
  \/ \E s \in Slots : RiskFetch(s)
  \/ \E s \in Slots : RiskLeverage(s)
  \/ \E s \in Slots : MidFetch(s)
  \/ \E s \in Slots : CancelFetch(s)
  \/ \E s \in Slots : CancelStep(s)
  \/ \E s \in Slots : PlaceStep(s)
  \/ \E s \in Slots : HedgeMidFetch(s)
  \/ \E s \in Slots : Return(s)
  \/ OracleTimerFire
  \/ OracleFetchDone
  \/ AdvanceClock

SpecOracle ==
  InitOracleOn /\ [][NextOracle]_vars

\* ------------------------------------------------------------------------
\* Properties of the live engine
\* ------------------------------------------------------------------------
\* the invocation made no venue call that touches orders and wrote no map
NoOrderEffect(h) ==
  /\ h.nCancel = 0
  /\ h.nBid = 0
  /\ h.nAsk = 0
  /\ h.nHedge = 0
  /\ ~h.wroteLQP
  /\ ~h.wroteCQ

\* |new - last| / last <= threshold, for last > 0
WithinThreshold(new, last) ==
  RLe(RDiv(RAbs(RSub(new, last)), last), CONFIG.requoteThreshold)

\* the invocation reached the requote gate with a stored entry and both
\* prices within requoteThreshold of it
GateSkipped(h) ==
  /\ h.gate.reached
  /\ h.gate.prev.ok
  /\ WithinThreshold(h.gate.bid, h.gate.prev.v.bid)
  /\ WithinThreshold(h.gate.ask, h.gate.prev.v.ask)

RiskDenied(h) ==
  /\ h.risk.reason # "not run"
  /\ ~h.risk.canTrade

UnhealthyBook(b) ==
  \/ Len(b.bids) < 2
  \/ Len(b.asks) < 2
  \/ RLt(RMul(Rat(5, 100), RDiv(RAdd(b.bids[1].price, b.asks[1].price), RInt(2))),
         RSub(b.asks[1].price, b.bids[1].price))

\* C3: an event whose book is unhealthy is dropped at once: its invocation
\* never waits on a venue call, fetches no account, cancels and places
\* nothing, and the step that handles it leaves lastQuotePrices,
\* currentQuotes, the cached account and the resting orders unchanged.
C3_UnhealthyBook ==
  [][\A s \in Slots :
       (handlers'[s].pc # "idle" /\ UnhealthyBook(handlers'[s].book)) =>
         /\ handlers'[s].pc = "done"
         /\ handlers'[s].nFetch = 0
         /\ handlers'[s].risk.reason = "not run"
         /\ NoOrderEffect(handlers'[s])
         /\ handlers'[s] # handlers[s] =>
               UNCHANGED << lastQuotePrices, currentQuotes, user, venueOrders >>]_vars

\* an event with a two-level book whose spread is too wide has been dropped
\* while a quote of the market is on record and orders rest
C3_Witness ==
  \E s \in Slots :
    /\ handlers[s].pc = "done"
    /\ UnhealthyBook(handlers[s].book)
    /\ Len(handlers[s].book.bids) >= 2
    /\ Len(handlers[s].book.asks) >= 2
    /\ handlers[s].marketId \in DOMAIN lastQuotePrices
    /\ venueOrders # {}

\* |size * entryPrice| of the position in market m, 0 without a position
ExposureIn(u, m) ==
  IF m \in DOMAIN u.positions
  THEN RAbs(RMul(u.positions[m].size, u.positions[m].entryPrice))
  ELSE RInt(0)

\* the four conditions of the risk gate on account u with margin fraction mf
FourChecksHold(u, mf, m) ==
  /\ RLe(Rat(18, 100), mf)
  /\ USDC_MINT_INDEX \in DOMAIN u.balances
  /\ RLe(RInt(100), u.balances[USDC_MINT_INDEX].availableAmount)
  /\ RLe(ExposureIn(u, m),
         RMul(u.balances[USDC_MINT_INDEX].availableAmount, Rat(30, 100)))
  /\ ~RIsZero(u.balances[USDC_MINT_INDEX].amount)
  /\ RLe(RDiv(RAdd(ExposureIn(u, 1), ExposureIn(u, 2)),
              u.balances[USDC_MINT_INDEX].amount),
         Rat(60, 100))

\* C4: whenever canQuote returns allow, the four checks hold on the account
\* its fetchInfo loaded into the NordUser and on the margin fraction
\* getLeverage returned: margin fraction >= minMarginFraction, available
\* collateral >= minFreeCollateral, the market's exposure <= available *
\* maxExposurePerMarket, total exposure / total collateral <= maxTotalExposure.
C4_AllowOnlyIfChecksHold ==
  [][\A s \in Slots :
       (handlers[s].pc = "risk_lev" /\ handlers'[s].risk.canTrade) =>
         FourChecksHold(user, handlers'[s].marginFraction, handlers'[s].marketId)]_vars

\* canQuote has allowed a market on an account that holds positions in both
\* markets and whose collateral is partly in use
C4_Witness ==
  \E s \in Slots :
    /\ handlers[s].risk.canTrade
    /\ handlers[s].nFetch = 1
    /\ DOMAIN user.positions = Markets
    /\ user.balances[USDC_MINT_INDEX].amount
         # user.balances[USDC_MINT_INDEX].availableAmount

\* C5 (as stated): two invocations of the handler for the same market are
\* never in flight at the same time.
C5_SerialPerMarket ==
  \A s, t \in Slots :
    (s # t /\ InFlight(handlers[s]) /\ InFlight(handlers[t])) =>
      handlers[s].marketId # handlers[t].marketId

\* C6 (as stated): once stop() has completed with a successful
\* cancelAllOrders, no order rests at the venue.
C6_NoOrderAfterStop ==
  (stopPc = "done" /\ stopLog.cancelAll = "ok") => venueOrders = {}

\* C7 (as stated): when stop() has completed, every step of the shutdown has
\* run: all markets are unsubscribed, timers and oracle are stopped.
C7_ShutdownCompletes ==
  stopPc = "done" =>
    /\ subscribed \cap activeMarkets = {}
    /\ requoteTimers = {}
    /\ ~oracle.handle

\* C8 (as stated): a worker is restarted by the supervisor's restart timer
\* at most cluster.maxRestarts times in total.
C8_RestartsBounded ==
  \A w \in WorkerIds :
    cluster.timerForks[w] <= CONFIG.cluster.maxRestarts

\* C10 (as stated): a quote cycle whose reference price is the oracle mid
\* took a price whose age, when getMidPrice returned it, was below cacheTimeout.
C10_OracleReferenceFresh ==
  \A s \in Slots :
    handlers[s].ref.src = "oracle" =>
      handlers[s].ref.age < CONFIG.oracle.cacheTimeout

\* C9: an invocation that met the requote gate without a stored entry is
\* never suppressed by it: once it has left requote it has either had its
\* sizes rejected or attempted CONFIG.maxLevels bids and as many asks.
C9_FirstQuotePlaced ==
  \A s \in Slots :
    LET h == handlers[s]
    IN  (/\ h.gate.reached
         /\ ~h.gate.prev.ok
         /\ h.pc \in {"hedge_mid_fetch", "hedge_place", "done"}) =>
          \/ h.sizes = "rejected"
          \/ /\ h.sizes = "accepted"
             /\ h.wroteLQP
             /\ h.nBid = CONFIG.maxLevels
             /\ h.nAsk = CONFIG.maxLevels

\* a first quote has been placed in full
C9_Witness ==
  \E s \in Slots :
    /\ handlers[s].gate.reached
    /\ ~handlers[s].gate.prev.ok
    /\ handlers[s].pc = "done"
    /\ handlers[s].sizes = "accepted"
    /\ handlers[s].nBid = CONFIG.maxLevels
    /\ handlers[s].nAsk = CONFIG.maxLevels

\* C11 (as stated): once an invocation has been denied for a margin fraction
\* below the minimum and has returned, with no other invocation in flight,
\* no order rests at the venue.
C11_BreachCancelsQuotes ==
  \A s \in Slots :
    (/\ handlers[s].pc = "done"
     /\ handlers[s].risk.reason = "Margin fraction too low"
     /\ \A t \in Slots : ~InFlight(handlers[t])
     /\ stopPc = "idle") =>
      venueOrders = {}

\* the values xs[i].f of a sequence of records, as a sequence
FieldOf(xs, f) ==
  [i \in 1..Len(xs) |-> xs[i][f]]

\* x is the element at 0-based index k of xs sorted ascending: it occurs in
\* xs, at most k elements are smaller and at least k + 1 are not greater
IsOrderStatistic(xs, k, x) ==
  /\ \E i \in 1..Len(xs) : xs[i] = x
  /\ Cardinality({ i \in 1..Len(xs) : RLt(xs[i], x) }) <= k
  /\ Cardinality({ i \in 1..Len(xs) : RLe(xs[i], x) }) >= k + 1

\* C12: the aggregation of n >= 1 source results returns as bid, ask and mid
\* the element at index floor(n/2) of the ascending-sorted bids, asks and
\* mids, each taken on its own, and as spread (ask - bid) / mid of those.
C12_MedianPerField ==
  call.fn = "aggregatePrices" =>
    /\ IsOrderStatistic(FieldOf(call.prices, "bid"), Len(call.prices) \div 2,
                        call.result.bid)
    /\ IsOrderStatistic(FieldOf(call.prices, "ask"), Len(call.prices) \div 2,
                        call.result.ask)
    /\ IsOrderStatistic(FieldOf(call.prices, "mid"), Len(call.prices) \div 2,
                        call.result.mid)
    /\ call.result.spread =
         RDiv(RSub(call.result.ask, call.result.bid), call.result.mid)

\* three results were aggregated and no single source supplied bid, ask and
\* mid together
C12_Witness ==
  /\ call.fn = "aggregatePrices"
  /\ Len(call.prices) = 3
  /\ \A i \in 1..3 :
       \/ call.prices[i].bid # call.result.bid
       \/ call.prices[i].ask # call.result.ask
       \/ call.prices[i].mid # call.result.mid

\* mid = (bid + ask) / 2
MidIsMean(price) ==
  price.mid = RDiv(RAdd(price.bid, price.ask), RInt(2))

\* C13 (as stated): every price getPrice returns from an aggregation
\* satisfies mid = (bid + ask) / 2.
C13_MidIsMean ==
  call.fn = "aggregatePrices" => MidIsMean(call.result)

\* C13 (amended): every price built by a source adapter satisfies
\* mid = (bid + ask) / 2, and so does the aggregation of a single result;
\* the aggregation of several results satisfies bid <= mid <= ask.
C13_SourceMidIsMean ==
  call.fn = "aggregatePrices" =>
    /\ \A i \in 1..Len(call.prices) : MidIsMean(call.prices[i])
    /\ Len(call.prices) = 1 => MidIsMean(call.result)
    /\ RLe(call.result.bid, call.result.mid)
    /\ RLe(call.result.mid, call.result.ask)

\* two results were aggregated into a price whose mid is not the mean of
\* its bid and ask
C13_Witness ==
  /\ call.fn = "aggregatePrices"
  /\ Len(call.prices) = 2
  /\ ~MidIsMean(call.result)

\* C14 (as stated): a book reported healthy has its best bid below its best
\* ask, a defined mid, and a top-of-book spread of at most 5% of the mid.
C14_HealthyImpliesUncrossed ==
  (call.fn = "isOrderbookHealthy" /\ call.result) =>
    /\ Len(call.book.bids) > 0
    /\ Len(call.book.asks) > 0
    /\ RLt(call.book.bids[1].price, call.book.asks[1].price)
    /\ ~UnhealthyBook(call.book)

\* the summed size of the first d levels of one side
RECURSIVE DepthOfTop(_, _)
DepthOfTop(levels, d) ==
  IF d = 0 THEN RInt(0)
  ELSE RAdd(levels[d].size, DepthOfTop(levels, d - 1))

\* (B - A) / (B + A), and 0 when B + A = 0
ImbalanceOf(B, A) ==
  IF RIsZero(RAdd(B, A)) THEN RInt(0)
  ELSE RDiv(RSub(B, A), RAdd(B, A))

\* the imbalance of a book over its top min(depthLevels, |bids|, |asks|) levels
BookImbalance(book) ==
  ImbalanceOf(
    DepthOfTop(book.bids, IMin(CONFIG.spread.depthLevels,
                               IMin(Len(book.bids), Len(book.asks)))),
    DepthOfTop(book.asks, IMin(CONFIG.spread.depthLevels,
                               IMin(Len(book.bids), Len(book.asks)))))

\* min + |imbalance| * (max - min)
SpreadAt(imbalance) ==
  RAdd(CONFIG.spread.min,
       RMul(RAbs(imbalance), RSub(CONFIG.spread.max, CONFIG.spread.min)))

\* books to compare a computed spread with: every depth and size combination
\* at one pair of prices
ProbeBooks ==
  { b \in DecisionBooks :
      /\ Len(b.bids) > 0 => b.bids[1].price = RInt(100)
      /\ Len(b.asks) > 0 => b.asks[1].price = Rat(1001, 10) }

\* C15: for every book, empty sides and zero depth included, the dynamic
\* spread lies in [spread.min, spread.max], equals
\* min + |imbalance| * (max - min) for the imbalance of the top
\* min(depthLevels, |bids|, |asks|) levels, and is non-decreasing in
\* |imbalance|.
C15_DynamicSpreadBounded ==
  call.fn = "computeDynamicSpread" =>
    /\ RLe(CONFIG.spread.min, call.result.spread)
    /\ RLe(call.result.spread, CONFIG.spread.max)
    /\ call.result.imbalance = BookImbalance(call.book)
    /\ call.result.spread = SpreadAt(BookImbalance(call.book))
    /\ \A other \in ProbeBooks :
         RLe(RAbs(BookImbalance(other)), RAbs(call.result.imbalance)) =>
           RLe(computeDynamicSpread(other).spread, call.result.spread)

\* the spread of a book with uneven sides (more bid levels than ask levels)
\* and a depth imbalance strictly between 0 and 1
C15_Witness ==
  /\ call.fn = "computeDynamicSpread"
  /\ Len(call.book.bids) > CONFIG.spread.depthLevels
  /\ Len(call.book.asks) = 2
  /\ RLt(RInt(0), RAbs(call.result.imbalance))
  /\ RLt(RAbs(call.result.imbalance), RInt(1))

\* canQuote returns a denial to invocation s in this step
Denied(s) ==
  /\ handlers[s].pc \in { "risk_fetch", "risk_lev" }
  /\ handlers'[s].pc \notin { "risk_fetch", "risk_lev" }
  /\ ~handlers'[s].risk.canTrade

\* one of the four checks is false on the account the NordUser holds when
\* canQuote returns, with the margin fraction getLeverage returned
SomeCheckFalse(s) ==
  \/ /\ handlers[s].pc = "risk_lev"
     /\ failures' = failures
     /\ RLt(handlers'[s].marginFraction, Rat(18, 100))
  \/ ~FourChecksHold(user', Rat(18, 100), handlers'[s].marketId)

\* C16 (as stated): every denial canQuote returns comes with at least one of
\* the four checks false on the account state.
C16_DenialImpliesCheckFalse ==
  [][\A s \in Slots : Denied(s) => SomeCheckFalse(s)]_vars

\* C16 (amended): every denial canQuote returns either follows a failed
\* fetchInfo or getLeverage call and carries the reason "Risk check error",
\* or comes with at least one of the four checks false on the account state;
\* the error reason is given for a failed call only.
C16_DenialImpliesCheckFalseOrError ==
  [][\A s \in Slots :
       Denied(s) =>
         IF failures' # failures
         THEN handlers'[s].risk.reason = "Risk check error"
         ELSE /\ SomeCheckFalse(s)
              /\ handlers'[s].risk.reason # "Risk check error"]_vars

\* canQuote has denied a market for its exposure on an account whose margin
\* fraction and free collateral pass
C16_Witness ==
  \E s \in Slots :
    /\ handlers[s].risk.reason = "Market exposure limit exceeded"
    /\ handlers[s].nFetch = 1
    /\ RLe(Rat(18, 100), handlers[s].marginFraction)
    /\ DOMAIN user.positions # {}

\* C17 (as stated): in a quote cycle canQuote allowed, the position ratio
\* has magnitude at most 1, whatever the reference price.
C17_RatioWithinUnit ==
  (call.fn = "getPositionRatio" /\ call.riskCheck.canTrade) =>
    RLe(RAbs(call.result), RInt(1))

\* the quotes around basePrice moved by the bias alone
UnskewedBid(basePrice, spread, bias) ==
  RMul(RMul(basePrice, RAdd(RInt(1), bias)), RSub(RInt(1), RDiv(spread, RInt(2))))

UnskewedAsk(basePrice, spread, bias) ==
  RMul(RMul(basePrice, RAdd(RInt(1), bias)), RAdd(RInt(1), RDiv(spread, RInt(2))))

\* C18: with skew enabled and a positive skew factor, the position ratio has
\* the sign of the position's size when free collateral is positive; the
\* skew factor has the sign of the ratio beyond the 5% dead band and is 0
\* inside it; a long position beyond the band raises bid and ask above the
\* unskewed quotes and a short one lowers both.
C18_SkewFollowsPosition ==
  call.fn = "applyInventorySkew" =>
    /\ (1 \in DOMAIN call.user.positions /\ RLt(RInt(0), availableOf(call.user))) =>
         RSign(call.result.positionRatio) = RSign(call.user.positions[1].size)
    /\ IF RLt(Rat(5, 100), RAbs(call.result.positionRatio))
       THEN RSign(call.result.skewFactor) = RSign(call.result.positionRatio)
       ELSE call.result.skewFactor = RInt(0)
    /\ RLt(Rat(5, 100), call.result.positionRatio) =>
         /\ RLt(UnskewedBid(call.basePrice, call.spread, call.result.bias),
                call.result.bidPrice)
         /\ RLt(UnskewedAsk(call.basePrice, call.spread, call.result.bias),
                call.result.askPrice)
    /\ RLt(call.result.positionRatio, Rat(-5, 100)) =>
         /\ RLt(call.result.bidPrice,
                UnskewedBid(call.basePrice, call.spread, call.result.bias))
         /\ RLt(call.result.askPrice,
                UnskewedAsk(call.basePrice, call.spread, call.result.bias))

\* the skew of a short position beyond the dead band
C18_Witness ==
  /\ call.fn = "applyInventorySkew"
  /\ RLt(call.result.positionRatio, Rat(-5, 100))
  /\ RLt(call.result.skewFactor, RInt(0))

\* C19 (as stated): the bias applied is the market's entry in assets whenever
\* there is one, a zero bias included, and defaultBias only without an entry.
C19_AssetBiasWins ==
  call.fn = "applyInventorySkew" =>
    call.result.bias =
      IF call.marketId \in DOMAIN call.assets
      THEN call.assets[call.marketId].bias
      ELSE call.defaultBias

\* C20 (as stated): no process subscribes to a market or places an order
\* before validateConfig has accepted its configuration, and a process
\* launched on an invalid configuration exits with code 1 and never quotes.
C20_ValidatedBeforeQuoting ==
  /\ (subscribed # {} \/ venueOrders # {}) => boot.validated
  /\ validateConfig(boot.config) # "ok" =>
       /\ subscribed = {}
       /\ venueOrders = {}
       /\ boot.pc = "exited" => boot.exitCode = 1

\* every constraint the configuration is documented to satisfy
DocumentedConstraints(config) ==
  /\ RLt(config.spread.min, config.spread.max)
  /\ RLt(RInt(0), config.risk.minMarginFraction)
  /\ RLt(config.risk.minMarginFraction, RInt(1))
  /\ config.maxLevels \in 1..10
  /\ Len(config.tieredMultipliers) >= config.maxLevels
  /\ RLe(RAbs(RSub(sumMultipliers(config.tieredMultipliers), RInt(1))), Rat(1, 100))
  /\ RLe(RInt(0), config.requoteThreshold)
  /\ RLe(config.requoteThreshold, Rat(1, 100))
  /\ RLt(RInt(0), config.autoHedge.imbalanceThreshold)
  /\ RLt(config.autoHedge.imbalanceThreshold, RInt(1))
  /\ \A m \in DOMAIN config.assets :
       /\ RLe(Rat(-1, 100), config.assets[m].bias)
       /\ RLe(config.assets[m].bias, Rat(1, 100))
  /\ config.oracle.enabled => Len(config.oracle.sources) > 0
  /\ config.cluster.enabled => Len(config.cluster.processGroups) > 0

\* C21 (as stated): validateConfig accepts a configuration only if every
\* documented constraint holds, and rejects every other one.
C21_AcceptsOnlyValid ==
  call.fn = "validateConfig" =>
    (call.result = "ok" <=> DocumentedConstraints(call.config))


\* ------------------------------------------------------------------------
\* Properties of the backtest engine
\* ------------------------------------------------------------------------
\* fills i and i + 1 of the log are a bid fill immediately followed by an
\* ask fill of equal size at a higher price
IsRoundTrip(fills, i) ==
  /\ fills[i].side = "bid"
  /\ fills[i + 1].side = "ask"
  /\ fills[i + 1].size = fills[i].size
  /\ RGt(fills[i + 1].price, fills[i].price)

\* size * (ask fill price - bid fill price)
RoundTripSpread(fills, i) ==
  RMul(fills[i].size, RSub(fills[i + 1].price, fills[i].price))

\* C22: whatever the position before it, a bid fill immediately followed by
\* an ask fill of equal size at a higher price raises position.realizedPnl
\* and balance by exactly size * (ask fill price - bid fill price), a
\* positive amount.
C22_RoundTripBooksSpread ==
  \A i \in 1..(Len(backtest.fills) - 1) :
    IsRoundTrip(backtest.fills, i) =>
      /\ RSign(RoundTripSpread(backtest.fills, i)) > 0
      /\ RSub(backtest.fills[i + 1].realizedAfter,
              backtest.fills[i].realizedBefore)
           = RoundTripSpread(backtest.fills, i)
      /\ RSub(backtest.fills[i + 1].balanceAfter,
              backtest.fills[i].balanceBefore)
           = RoundTripSpread(backtest.fills, i)

\* C22, amended: a bid fill on a flat position immediately followed by an ask
\* fill of equal size at a higher price raises position.realizedPnl and
\* balance by exactly size * (ask fill price - bid fill price), a positive
\* amount.
C22_FlatRoundTripBooksSpread ==
  \A i \in 1..(Len(backtest.fills) - 1) :
    (IsRoundTrip(backtest.fills, i) /\ RIsZero(backtest.fills[i].sizeBefore)) =>
      /\ RSign(RoundTripSpread(backtest.fills, i)) > 0
      /\ RSub(backtest.fills[i + 1].realizedAfter,
              backtest.fills[i].realizedBefore)
           = RoundTripSpread(backtest.fills, i)
      /\ RSub(backtest.fills[i + 1].balanceAfter,
              backtest.fills[i].balanceBefore)
           = RoundTripSpread(backtest.fills, i)

\* a round trip from a flat position has been booked
C22_Witness ==
  \E i \in 1..(Len(backtest.fills) - 1) :
    /\ IsRoundTrip(backtest.fills, i)
    /\ RIsZero(backtest.fills[i].sizeBefore)

\* C23: the fillRate that run() reports is the number of filled orders
\* divided by the number of orders placed during the run, the unfilled
\* orders removed by cancelOldOrders included.
C23_FillRateOverPlaced ==
  (backtest.pc = "done" /\ backtest.placed > 0) =>
    backtest.result.fillRate = Rat(Len(backtest.fills), backtest.placed)

\* ------------------------------------------------------------------------
\* Properties of the market simulator
\* ------------------------------------------------------------------------
\* C24: every bar generateBar produces, in every scenario and for every
\* draw, has low <= min(open, close) and max(open, close) <= high.
C24_BarWithinLowHigh ==
  call.fn = "generateBar" =>
    /\ RLe(call.result.low, RMin(call.result.open, call.result.close))
    /\ RLe(RMax(call.result.open, call.result.close), call.result.high)

\* ------------------------------------------------------------------------
\* Properties of the started process
\* ------------------------------------------------------------------------
\* C25: however many markets the process has started, a worker that starts
\* its markets one by one included, exactly one orderbook callback is
\* registered with the venue client.
C25_HandlerRegisteredOnce ==
  isRunning => handlerCount = 1

\* ------------------------------------------------------------------------
\* Properties of the hedge
\* ------------------------------------------------------------------------
\* the invocation has handed a hedge order to user.placeOrder
Hedged(h) ==
  h.hedge.outcome \in {"placed", "failed"}

\* C26: an invocation of the handler places at most one hedge order; every
\* hedge order is a reduce-only market order on the side opposite to the
\* sign of the position, of size 0.3 * |position.size|; it is placed only
\* with autoHedge enabled, a non-zero position and a position ratio beyond
\* imbalanceThreshold in absolute value; and when the placement fails the
\* invocation ends normally, without a second attempt.
C26_HedgeOrderShape ==
  \A s \in Slots :
    /\ handlers[s].nHedge <= 1
    /\ handlers[s].nHedge = 1 <=> Hedged(handlers[s])
    /\ handlers[s].hedge.outcome # "none" =>
         /\ handlers[s].hedge.order.fillMode = "Market"
         /\ handlers[s].hedge.order.isReduceOnly
         /\ handlers[s].hedge.order.side =
              (IF RSign(handlers[s].hedge.positionSize) > 0 THEN "ask" ELSE "bid")
         /\ handlers[s].hedge.order.size =
              RMul(Rat(3, 10), RAbs(handlers[s].hedge.positionSize))
         /\ cfg.autoHedgeEnabled
         /\ ~RIsZero(handlers[s].hedge.positionSize)
         /\ RGt(RAbs(handlers[s].hedge.ratio), CONFIG.autoHedge.imbalanceThreshold)
    /\ handlers[s].hedge.outcome = "failed" => handlers[s].pc = "done"

\* a hedge order against a short position has been handed to placeOrder, the
\* placement has failed and the invocation has ended
C26_Witness ==
  \E s \in Slots :
    /\ handlers[s].hedge.outcome = "failed"
    /\ RSign(handlers[s].hedge.positionSize) < 0
    /\ handlers[s].hedge.order.side = "bid"
    /\ handlers[s].pc = "done"

\* ------------------------------------------------------------------------
\* Properties of the quote cycle's bookkeeping
\* ------------------------------------------------------------------------
\* C27: only a quote cycle that succeeds writes lastQuotePrices: an
\* invocation suppressed by the health check, by the risk check or by a size
\* failure (no sizes, or validateSizes false) has not written it.
C27_SuppressedCycleKeepsLastPrices ==
  \A s \in Slots :
    (\/ handlers[s].sizes = "rejected"
     \/ RiskDenied(handlers[s])
     \/ (handlers[s].pc = "done" /\ ~handlers[s].gate.reached)) =>
      ~handlers[s].wroteLQP

\* the entry of market m in a map, as a sequence of at most one element
EntryOf(map, m) ==
  IF m \in DOMAIN map THEN << map[m] >> ELSE << >>

\* what an invocation that the gate has skipped has done, and what the gate
\* decides against a stored entry
GateDecision(h) ==
  /\ GateSkipped(h) =>
       /\ h.nCancel = 0
       /\ h.toCancel = {}
       /\ ~h.wroteLQP
       /\ ~h.wroteCQ
  /\ (h.gate.reached /\ h.gate.prev.ok /\ ~GateSkipped(h)) => h.wroteLQP

\* a step that changes the lastQuotePrices entry of a market is the gate
\* step of an invocation of that market that the gate lets pass, and stores
\* that invocation's prices; a step that changes currentQuotes belongs to
\* an invocation that the gate has let pass
GateFrame ==
  \A m \in Markets :
    /\ EntryOf(lastQuotePrices', m) # EntryOf(lastQuotePrices, m) =>
         \E s \in Slots :
           /\ handlers'[s].marketId = m
           /\ handlers'[s].wroteLQP /\ ~handlers[s].wroteLQP
           /\ ~GateSkipped(handlers'[s])
           /\ lastQuotePrices'[m].bid = handlers'[s].gate.bid
           /\ lastQuotePrices'[m].ask = handlers'[s].gate.ask
    /\ EntryOf(currentQuotes', m) # EntryOf(currentQuotes, m) =>
         \E s \in Slots :
           /\ handlers'[s].marketId = m
           /\ handlers'[s].wroteCQ /\ ~handlers[s].wroteCQ
           /\ ~GateSkipped(handlers'[s])

LadderProgress(h) ==
  h.sizes = "accepted" =>
    /\ Len(h.quotes.bids) = Len(h.quotes.asks)
    /\ Len(h.quotes.bids) \in 1..CONFIG.maxLevels
    /\ IF h.pc = "place"
       THEN /\ h.idx < 2 * Len(h.quotes.bids)
            /\ h.nBid = IMin(h.idx, Len(h.quotes.bids))
            /\ h.nAsk = h.idx - h.nBid
            /\ ~h.wroteCQ
       ELSE /\ h.nBid = Len(h.quotes.bids)
            /\ h.nAsk = Len(h.quotes.asks)
            /\ h.wroteCQ

\* the step in which an invocation writes currentQuotes is the one of its
\* last attempt, and records the ladder it intended
LadderRecorded ==
  \A s \in Slots :
    (handlers'[s].wroteCQ /\ ~handlers[s].wroteCQ) =>
      /\ handlers[s].pc = "place"
      /\ handlers[s].idx + 1 = 2 * Len(handlers[s].quotes.bids)
      /\ currentQuotes'[handlers[s].marketId].bids = handlers[s].quotes.bids
      /\ currentQuotes'[handlers[s].marketId].asks = handlers[s].quotes.asks

TickStep ==
  tick' # tick

TickFrame ==
  TickStep =>
    /\ UNCHANGED << venueOrders, lastQuotePrices, currentQuotes, handlers,
                    isRunning, activeMarkets, subscribed, stopPc >>
    /\ (tick'.pc = "fetch" /\ tick.pc = "idle") =>
         (isRunning /\ stopPc = "idle" /\ UNCHANGED requoteTimers)
    /\ tick'.failed # tick.failed =>
         (tick'.pc = "idle" /\ UNCHANGED << requoteTimers, user >>)

RefreshSettles ==
  /\ tick.pc = "fetch"
  /\ tick'.pc = "idle"
  /\ tick'.failed = tick.failed

RefresherFires ==
  /\ oracle.pending \subseteq oracle'.pending
  /\ \E p \in oracle'.pending \ oracle.pending : p.kind = "timer"

C31_NoRefreshAfterOracleStop ==
  [][stopPc # "idle" => ~RefresherFires]_vars

\* ------------------------------------------------------------------------
\* C32: in every quote cycle that places orders, the sizes sent on one side
\* (after roundSize) have total notional sum(size * mid) of at most
\* available * maxExposurePerSide
\* ------------------------------------------------------------------------
RECURSIVE sentSize(_)
sentSize(orders) ==
  IF Len(orders) = 0 THEN RInt(0)
  ELSE RAdd(orders[1].size, sentSize(Tail(orders)))

SideWithinExposure(orders) ==
  RLe(RMul(sentSize(orders), call.midPrice),
      RMul(availableOf(call.user), CONFIG.risk.maxExposurePerSide))

C32_SentSizesWithinExposure ==
  (call.fn = "requote" /\ call.result.outcome = "placed") =>
    /\ SideWithinExposure(call.result.sent.bids)
    /\ SideWithinExposure(call.result.sent.asks)

\* ------------------------------------------------------------------------
\* C33: with a positive reference price and a positive spread, the prices a
\* quote cycle sends after tick rounding do not cross: every bid price is
\* strictly lower than every ask price, bid prices are non-increasing and ask
\* prices non-decreasing with the level index
\* ------------------------------------------------------------------------
C33_SentPricesDoNotCross ==
  (call.fn = "requote" /\ call.result.outcome = "placed") =>
    LET bids == call.result.sent.bids
        asks == call.result.sent.asks
    IN  /\ \A i \in 1..Len(bids), j \in 1..Len(asks) :
             RLt(bids[i].price, asks[j].price)
        /\ \A i \in 1..(Len(bids) - 1) : RLe(bids[i + 1].price, bids[i].price)
        /\ \A i \in 1..(Len(asks) - 1) : RLe(asks[i].price, asks[i + 1].price)

\* ------------------------------------------------------------------------
\* C34: when no venue call fails and the events of a market are handled one
\* after the other, the engine has at most 2 * maxLevels resting limit
\* orders in a market at the end of every quote cycle of that market; a cycle
\* that starts placing its ladder has no older order of its market left at
\* the venue; and a cancellation removes no order of another market
\* ------------------------------------------------------------------------
RestingIn(marketId) ==
  { o \in venueOrders : o.marketId = marketId /\ o.fillMode = "Limit" }

CancelsOwnMarket ==
  \A s \in Slots :
    handlers'[s].nCancel > handlers[s].nCancel =>
      \A o \in venueOrders \ venueOrders' : o.marketId = handlers[s].marketId

C34_LadderReplacesOrders ==
  /\ [](failures = 0 =>
          \A s \in Slots :
            /\ handlers[s].pc = "done" =>
                 Cardinality(RestingIn(handlers[s].marketId))
                   <= 2 * CONFIG.maxLevels
            /\ handlers[s].pc = "place" =>
                 \A o \in RestingIn(handlers[s].marketId) :
                   o.id[1] = handlers[s].ev)
  /\ [][CancelsOwnMarket]_vars

\* a cycle of market 1 has cancelled the two orders of the cycle before it
\* and placed its own two, while the two orders of market 2 rest
C34_Witness ==
  \E s \in Slots :
    /\ handlers[s].pc = "done"
    /\ handlers[s].marketId = 1
    /\ handlers[s].nCancel = 2
    /\ handlers[s].nBid + handlers[s].nAsk = 2
    /\ Cardinality(RestingIn(1)) = 2
    /\ Cardinality(RestingIn(2)) = 2
    /\ failures = 0

\* ------------------------------------------------------------------------
\* C35: at any time at most one live worker process exists per process
\* group, and every live worker is in the supervisor's workers map.  A
\* process that restartWorker or shutdown has signalled and that has not
\* exited yet is not counted as live.
\* ------------------------------------------------------------------------
LiveWorkers(w) ==
  { p \in cluster.procs : p.workerId = w /\ p.killed = "none" }

C35_OneMappedWorkerPerGroup ==
  \A w \in WorkerIds :
    /\ Cardinality(LiveWorkers(w)) <= 1
    /\ \A p \in LiveWorkers(w) :
         w \in DOMAIN cluster.workers /\ cluster.workers[w] = p

\* ------------------------------------------------------------------------
\* C36: once ProcessManager.shutdown() has started no worker process is
\* forked any more, whether a restart timer fires, a worker exits with a
\* non-zero code, or startCluster or restartWorker is still in progress; the
\* exit handler of a worker that exits with code 0 schedules no restart; and
\* when shutdown() has returned the workers map is empty
\* ------------------------------------------------------------------------
NoForkInShutdown ==
  cluster.isShuttingDown =>
    /\ cluster'.forks = cluster.forks
    /\ \A p \in cluster'.procs : \E q \in cluster.procs :
         q.workerId = p.workerId /\ q.gen = p.gen

C36_NoForkAfterShutdown ==
  /\ [][NoForkInShutdown]_vars
  /\ [](\A p \in cluster.procs :
          onExit(cluster, p, 0).timers = cluster.timers)
  /\ [](cluster.shutdownPc = "done" => cluster.workers = << >>)

\* shutdown() has returned; startCluster had not reached the second group
\* and restartWorker(0) was in its wait when shutdown began, and both have
\* since called startWorker, which forked nothing
C36_Witness ==
  /\ cluster.shutdownPc = "done"
  /\ cluster.startPc = "done"
  /\ cluster.manual = 1
  /\ cluster.restarting = {}
  /\ cluster.forks = (0 :> 1) @@ (1 :> 0)
  /\ cluster.workers = << >>

\* ------------------------------------------------------------------------
\* C37: for every symbol the timestamp of the cached ExchangePrice never
\* decreases, and the entry is only ever replaced by the aggregate of the
\* successful results of a getPrice call that settles in that step, whatever
\* the interleaving of the refresher's, the initial and the quote handlers'
\* getPrice calls; a call in which no source succeeds leaves the cache as it
\* is; and a call that finds a fresh entry queries no source
\* ------------------------------------------------------------------------
Symbols ==
  { symbolOf(m) : m \in Markets }

\* a getPrice call for the symbol is awaiting its sources
Fetching(o, hs, symbol) ==
  \/ \E p \in o.pending : p.symbol = symbol
  \/ \E s \in Slots : /\ hs[s].pc \in {"mid_fetch", "hedge_mid_fetch"}
                      /\ symbolOf(hs[s].marketId) = symbol

\* the calls that start awaiting their sources in this step
StartsFetching(symbol) ==
  \/ \E p \in oracle'.pending \ oracle.pending : p.symbol = symbol
  \/ \E s \in Slots : /\ handlers'[s].pc \in {"mid_fetch", "hedge_mid_fetch"}
                      /\ handlers'[s].pc # handlers[s].pc
                      /\ symbolOf(handlers'[s].marketId) = symbol

CacheFrame ==
  \A symbol \in Symbols :
    /\ symbol \in DOMAIN oracle.cache => symbol \in DOMAIN oracle'.cache
    /\ cacheGet(oracle'.cache, symbol) # cacheGet(oracle.cache, symbol) =>
         /\ Fetching(oracle, handlers, symbol)
         /\ \E outcome \in SourceOutcomes \ { << >> } :
              oracle'.cache[symbol] = aggregatePrices(pricesOf(outcome, now), now)
         /\ symbol \in DOMAIN oracle.cache =>
              oracle'.cache[symbol].timestamp >= oracle.cache[symbol].timestamp
    /\ StartsFetching(symbol) =>
         ~cacheHitFresh(cacheGet(oracle'.cache, symbol), now)

C37_CacheOnlyAdvances ==
  /\ [][CacheFrame]_vars
  /\ [](\A symbol \in Symbols :
          getPriceCache(oracle.cache, symbol, << >>, now) = oracle.cache)

\* the entry of SOL has been replaced after it went stale, while a quote
\* handler's getPrice call that found the old entry is still awaiting its
\* sources
C37_Witness ==
  /\ "SOL" \in DOMAIN oracle.cache
  /\ oracle.cache["SOL"].timestamp = CONFIG.oracle.cacheTimeout
  /\ \E s \in Slots :
       /\ handlers[s].pc = "mid_fetch"
       /\ handlers[s].marketId = 1
       /\ handlers[s].cached.ok
       /\ handlers[s].cached.v.timestamp = 0

\* ------------------------------------------------------------------------
\* C38: backtest accounting.  After any sequence of bars and fills the
\* balance is initialBalance + position.realizedPnl; position.size is the
\* sum of the sizes of the filled bids minus that of the filled asks, every
\* order being filled at most once; a position of size 0 has entryPrice 0;
\* and a filled order is never removed by the age cancellation
\* ------------------------------------------------------------------------
RECURSIVE filledSize(_, _)
filledSize(orders, side) ==
  IF Len(orders) = 0 THEN RInt(0)
  ELSE IF orders[1].filled /\ orders[1].side = side
    THEN RAdd(orders[1].size, filledSize(Tail(orders), side))
    ELSE filledSize(Tail(orders), side)

FilledIndexes(orders) ==
  { i \in 1..Len(orders) : orders[i].filled }

BacktestBooksBalance ==
  /\ backtest.balance = RAdd(InitialBalance, backtest.position.realizedPnl)
  /\ backtest.position.size = RSub(filledSize(backtest.orders, "bid"),
                                   filledSize(backtest.orders, "ask"))
  /\ Len(backtest.fills) = Cardinality(FilledIndexes(backtest.orders))
  /\ RIsZero(backtest.position.size) => RIsZero(backtest.position.entryPrice)

FilledOrdersKept ==
  \A i \in FilledIndexes(backtest.orders) :
    \E j \in FilledIndexes(backtest'.orders) :
      backtest'.orders[j] = backtest.orders[i]

C38_BacktestAccounting ==
  /\ []BacktestBooksBalance
  /\ [][FilledOrdersKept]_vars

\* after three bars: the first bar's bid was filled and is still in the
\* list past maxAge, its unfilled ask has been removed, a later ask has
\* realized a profit and the position is flat again
C38_Witness ==
  /\ backtest.bars = 3
  /\ \E i \in FilledIndexes(backtest.orders) :
       backtest.orders[i].timestamp = 0 /\ backtest.orders[i].side = "bid"
  /\ \A i \in 1..Len(backtest.orders) :
       backtest.orders[i].timestamp = 0 => backtest.orders[i].filled
  /\ RIsZero(backtest.position.size)
  /\ RGt(backtest.position.realizedPnl, RInt(0))

\* ------------------------------------------------------------------------
\* C39: mark-to-market agrees with realization for a position of either
\* sign: the unrealizedPnl computed at price p is the realized PnL fillOrder
\* books when one fill at price p closes the whole position; a short
\* position shows a gain when p is below its entry price
\* ------------------------------------------------------------------------
\* the order whose fill closes the whole position at price p
closingOrder(position, p) ==
  [ side |-> IF RSign(position.size) > 0 THEN "ask" ELSE "bid",
    price |-> p, size |-> RAbs(position.size), timestamp |-> 0,
    filled |-> FALSE ]

realizedByClosing(b, p) ==
  RSub(fillOrder(b, closingOrder(b.position, p)).position.realizedPnl,
       b.position.realizedPnl)

C39_MarkToMarketIsRealizable ==
  \A bar \in BacktestBars :
    ~RIsZero(backtest.position.size) =>
      /\ updateUnrealizedPnl(backtest.position, bar.close)
           = realizedByClosing(backtest, bar.close)
      /\ (RSign(backtest.position.size) < 0
            /\ RLt(bar.close, backtest.position.entryPrice)) =>
           RGt(updateUnrealizedPnl(backtest.position, bar.close), RInt(0))


\* C40: each scenario generator (illiquid, trending, ranging) called with a
\* step count N through the simulate command returns exactly N bars, the
\* first stamped now - N * 60000 and each next one 60000 ms later.
C40_ScenarioReturnsStepsBars ==
  (call.fn = "simulate" /\ call.type # "other") =>
    /\ Len(call.result) = call.steps
    /\ \A i \in 1..Len(call.result) :
         call.result[i] = call.now - call.steps * BarInterval
                            + (i - 1) * BarInterval

====
